---- MODULE Spec2Model ----
(***************************************************************************)
(* A model of veri-text's detection-and-arbitration engine:                *)
(*   - the rule engine (src/src/services/rule_engine.py),                  *)
(*   - the result arbitrator (src/src/services/result_arbitrator.py),      *)
(*   - the orchestrator EnhancedDetectionService                           *)
(*     (src/src/services/enhanced_detection_service.py),                   *)
(*   - the older SensitiveWordDetectionService with its RuleBasedDetector  *)
(*     (src/src/services/detection_service.py, rule_detector.py).          *)
(*                                                                         *)
(* Representation.                                                         *)
(*   A text is a sequence of one-character strings.                        *)
(*   A float in [0,1] is a fixed-point integer, One standing for 1.0; the  *)
(*   inputs are multiples of 0.1, for which every product the code forms   *)
(*   is exact in this representation.                                      *)
(*   A Python dict is a sequence of entries in insertion order wherever    *)
(*   the code iterates it, and a function where it only looks keys up.     *)
(*   Fields that the code copies through unchanged and never reads         *)
(*   (match_type, detection_method, suggestion, description, file) are     *)
(*   left out of the records.                                              *)
(***************************************************************************)
EXTENDS Integers, Sequences, FiniteSets, TLC

(***************************************************************************)
(* Bounds of the model.                                                    *)
(***************************************************************************)
\* the longest text of a detection request
MaxTextLen == 4
\* the most results the per-rule input of a bare arbitrator holds
MaxArbItems == 3
\* the largest of the adjacent start offsets of the spans given to a bare
\* arbitrator
MaxStart == 1
\* the most detect calls the two services serve in a run of the model
MaxRequests == 2
\* settings.max_text_length as the modelled deployment configures it
max_text_length == 3
\* the longest text of letters, whitespace and Han characters given to
\* TextPreprocessor.normalize
MaxScriptLen == 5
\* the longest text with noise characters given to clean_for_matching
MaxNoiseLen == 3
\* the most load_wordlist calls made on a rule object used on its own
MaxLoads == 2
MaxSplitLen == 4
MaxChunkLen == 3

(***************************************************************************)
(* Fixed point: One is 1.0.                                                *)
(***************************************************************************)
One == 100 * 100

Tenth(n) == n * (One \div 10)

Mul(a, b) == (a * b) \div One

Min(a, b) == IF a <= b THEN a ELSE b

Abs(a) == IF a < 0 THEN 0 - a ELSE a

(***************************************************************************)
(* Sequences.                                                              *)
(***************************************************************************)
RECURSIVE Concat(_)
Concat(ss) == IF ss = <<>> THEN <<>> ELSE Head(ss) \o Concat(Tail(ss))

SelectIdx(s, Keep(_)) ==
    LET idx == {i \in 1..Len(s) : Keep(i)}
        Rank(i) == Cardinality({j \in idx : j <= i})
    IN  [k \in 1..Cardinality(idx) |-> s[CHOOSE i \in idx : Rank(i) = k]]

LexLess(a, b) == a[1] < b[1] \/ (a[1] = b[1] /\ a[2] < b[2])

\* Python's sorted(s, key=...) with keys[i] the key of s[i]: ascending
\* lexicographic order of the key tuples, equal keys keeping their order.
StableSortByKey(s, keys) ==
    LET Before(j, i) == LexLess(keys[j], keys[i]) \/ (keys[j] = keys[i] /\ j < i)
        Rank(i) == 1 + Cardinality({j \in 1..Len(s) : Before(j, i)})
    IN  [k \in 1..Len(s) |-> s[CHOOSE i \in 1..Len(s) : Rank(i) = k]]

Range(s) == {s[i] : i \in 1..Len(s)}

DictGet(d, k, default) == IF k \in DOMAIN d THEN d[k] ELSE default

(***************************************************************************)
(* Categories; the iteration order of a Python set of strings.             *)
(***************************************************************************)
Categories == {"c1", "c2"}

CatIndex(c) == IF c = "c1" THEN 1 ELSE 2

\* list(set(...)): the order in which a set of str is iterated follows the
\* strings' hashes, which the interpreter salts per process (PYTHONHASHSEED
\* is random by default).  hashseed stands for the salt of the process that
\* runs the call: one process always yields the same order for the same
\* set, two processes need not.
HashSeeds == {0, 1}

SetToList(S, hashseed) ==
    LET n == Cardinality(S)
        Pos(c) == IF hashseed = 0
                  THEN Cardinality({d \in S : CatIndex(d) <= CatIndex(c)})
                  ELSE Cardinality({d \in S : CatIndex(d) >= CatIndex(c)})
    IN  [k \in 1..n |-> CHOOSE c \in S : Pos(c) = k]

(***************************************************************************)
(* models/common.py, models/detection.py                                   *)
(***************************************************************************)
\* Position: start >= 0, end >= 0 and start < end, or the constructor raises.
PositionValid(start, end) == start >= 0 /\ end >= 0 /\ start < end

\* a variant that constructs the item without validating it
DetectionResultItemUnvalidated(item) == TRUE

\* DetectionResultItem: confidence is validated ge=0.0, le=1.0.
DetectionResultItemValid(item) == item.confidence >= 0 /\ item.confidence <= One

DetectionResultItem(word, category, confidence, positions) ==
    [matched_word |-> word, category |-> category,
     confidence |-> confidence, positions |-> positions]

(***************************************************************************)
(* result_arbitrator.py                                                    *)
(***************************************************************************)
\* Hit; __post_init__ fills positions with [Position(start, end)].
Hit(word, start, end, category, source, confidence) ==
    [word |-> word, start |-> start, end |-> end, category |-> category,
     source |-> source, confidence |-> confidence,
     positions |-> << <<start, end>> >>]

HitValid(h) == PositionValid(h.start, h.end)

\* ArbitrationConfig defaults, and the engine weights __init__ fills in.
DefaultEngineWeights ==
    [r \in {"ExactMatchRule", "JiebaRule"} |->
        IF r = "ExactMatchRule" THEN Tenth(10) ELSE Tenth(9)]

ArbitrationConfig(category_weights, engine_weights, boost, threshold, merging) ==
    [enable_max_matching |-> merging,
     confidence_threshold |-> threshold,
     confidence_boost_factor |-> boost,
     category_weights |-> category_weights,
     engine_weights |-> engine_weights]

NoWeights == [c \in {} |-> 0]

DefaultArbitrationConfig(category_weights) ==
    ArbitrationConfig(category_weights, DefaultEngineWeights,
                      Tenth(1), Tenth(5), TRUE)

hits_of_result(rule_name, result, config) ==
    LET engine_weight == DictGet(config.engine_weights, rule_name, One)
        adjusted == Min(One, Mul(result.confidence, engine_weight))
    IN  IF result.positions # <<>>
        THEN [p \in 1..Len(result.positions) |->
                Hit(result.matched_word, result.positions[p][1],
                    result.positions[p][2], result.category, rule_name, adjusted)]
        ELSE << Hit(result.matched_word, 0, Len(result.matched_word),
                    result.category, rule_name, adjusted) >>

convert_to_hits(results_by_rule, config) ==
    Concat([k \in 1..Len(results_by_rule) |->
        Concat([i \in 1..Len(results_by_rule[k].results) |->
            hits_of_result(results_by_rule[k].rule,
                           results_by_rule[k].results[i], config)])])

RECURSIVE greedy_scan(_, _, _)
greedy_scan(sorted_hits, last_accepted_end, final_hits) ==
    IF sorted_hits = <<>> THEN final_hits
    ELSE LET hit == Head(sorted_hits)
         IN  IF hit.start >= last_accepted_end
             THEN greedy_scan(Tail(sorted_hits), hit.end, Append(final_hits, hit))
             ELSE greedy_scan(Tail(sorted_hits), last_accepted_end, final_hits)

\* a variant whose sort puts the shorter hit of a start offset first
merge_hits_greedy_shortest_first(all_hits) ==
    LET sorted_hits == StableSortByKey(all_hits,
            [i \in 1..Len(all_hits) |-> <<all_hits[i].start, all_hits[i].end>>])
    IN  greedy_scan(sorted_hits, -1, <<>>)

\* a scan that accepts a hit only if it starts after the end of the last
\* accepted hit, so that a hit adjacent to it is discarded
RECURSIVE greedy_scan_strict(_, _, _)
greedy_scan_strict(sorted_hits, last_accepted_end, final_hits) ==
    IF sorted_hits = <<>> THEN final_hits
    ELSE LET hit == Head(sorted_hits)
         IN  IF hit.start > last_accepted_end
             THEN greedy_scan_strict(Tail(sorted_hits), hit.end,
                                     Append(final_hits, hit))
             ELSE greedy_scan_strict(Tail(sorted_hits), last_accepted_end,
                                     final_hits)

merge_hits_greedy_strict(all_hits) ==
    LET sorted_hits == StableSortByKey(all_hits,
            [i \in 1..Len(all_hits) |-> <<all_hits[i].start, 0 - all_hits[i].end>>])
    IN  greedy_scan_strict(sorted_hits, -1, <<>>)

merge_hits_greedy(all_hits) ==
    LET sorted_hits == StableSortByKey(all_hits,
            [i \in 1..Len(all_hits) |-> <<all_hits[i].start, 0 - all_hits[i].end>>])
    IN  greedy_scan(sorted_hits, -1, <<>>)

\* One rule's contribution to match_count for a hit: only the rule's first
\* result with the hit's word and category is looked at (the break).
rule_match_count(results, hit) ==
    LET same == {i \in 1..Len(results) :
                    /\ results[i].matched_word = hit.word
                    /\ results[i].category = hit.category}
    IN  IF same = {} THEN 0
        ELSE LET r == results[CHOOSE i \in same : \A j \in same : i <= j]
             IN  IF r.positions = <<>> THEN 1
                 ELSE IF \E p \in 1..Len(r.positions) :
                            Abs(r.positions[p][1] - hit.start) <= 2
                      THEN 1 ELSE 0

RECURSIVE SumSeq(_)
SumSeq(s) == IF s = <<>> THEN 0 ELSE Head(s) + SumSeq(Tail(s))

match_count(hit, results_by_rule) ==
    SumSeq([k \in 1..Len(results_by_rule) |->
                rule_match_count(results_by_rule[k].results, hit)])

enhance_hit(hit, results_by_rule, config) ==
    LET n == match_count(hit, results_by_rule)
    IN  IF n > 1
        THEN Hit(hit.word, hit.start, hit.end, hit.category, hit.source,
                 Min(One, hit.confidence + config.confidence_boost_factor * (n - 1)))
        ELSE hit

enhance_multi_engine_matches(hits, results_by_rule, config) ==
    [i \in 1..Len(hits) |-> enhance_hit(hits[i], results_by_rule, config)]

filter_by_confidence(hits, config) ==
    SelectSeq(hits, LAMBDA h : h.confidence >= config.confidence_threshold)

weighted_confidence(hit, config) ==
    Min(One, Mul(hit.confidence, DictGet(config.category_weights, hit.category, One)))

apply_category_weights(hits, config) ==
    [i \in 1..Len(hits) |->
        Hit(hits[i].word, hits[i].start, hits[i].end, hits[i].category,
            hits[i].source, weighted_confidence(hits[i], config))]

convert_to_detection_results(hits) ==
    [i \in 1..Len(hits) |->
        DetectionResultItem(hits[i].word, hits[i].category,
                            hits[i].confidence, hits[i].positions)]

\* a sort by confidence alone
sort_results_by_confidence(results, config) ==
    StableSortByKey(results,
        [i \in 1..Len(results) |-> <<0 - results[i].confidence, 0>>])

sort_results(results, config) ==
    StableSortByKey(results,
        [i \in 1..Len(results) |->
            <<0 - results[i].confidence,
              0 - DictGet(config.category_weights, results[i].category, One)>>])

NoCategory == "None"

\* a summary that lists the category of every result, without set()
generate_summary_per_result(results, hashseed) ==
    IF results = <<>>
    THEN [total_matches |-> 0, categories_found |-> <<>>,
          highest_risk_category |-> NoCategory]
    ELSE [total_matches |-> Len(results),
          categories_found |-> [i \in 1..Len(results) |-> results[i].category],
          highest_risk_category |-> results[1].category]

generate_summary(results, hashseed) ==
    IF results = <<>>
    THEN [total_matches |-> 0, categories_found |-> <<>>,
          highest_risk_category |-> NoCategory]
    ELSE [total_matches |-> Len(results),
          categories_found |->
              SetToList({results[i].category : i \in 1..Len(results)}, hashseed),
          highest_risk_category |-> results[1].category]

\* arbitrate with stages 4 and 5 exchanged: the category weights are applied
\* to the enhanced hits and the weighted hits are filtered
ArbStages_weight_first(results_by_rule, config) ==
    LET all_hits == convert_to_hits(results_by_rule, config)
        merged   == IF config.enable_max_matching
                    THEN merge_hits_greedy(all_hits) ELSE all_hits
        enhanced == enhance_multi_engine_matches(merged, results_by_rule, config)
        weighted == apply_category_weights(enhanced, config)
        filtered == filter_by_confidence(weighted, config)
    IN  [all_hits |-> all_hits, merged |-> merged, enhanced |-> enhanced,
         filtered |-> filtered, weighted |-> filtered]

\* The stages of arbitrate, each the input of the next.
ArbStages(results_by_rule, config) ==
    LET all_hits == convert_to_hits(results_by_rule, config)
        merged   == IF config.enable_max_matching
                    THEN merge_hits_greedy(all_hits) ELSE all_hits
        enhanced == enhance_multi_engine_matches(merged, results_by_rule, config)
        filtered == filter_by_confidence(enhanced, config)
        weighted == apply_category_weights(filtered, config)
    IN  [all_hits |-> all_hits, merged |-> merged, enhanced |-> enhanced,
         filtered |-> filtered, weighted |-> weighted]

\* arbitrate raises when a constructor along the way rejects its arguments.
arbitrate_raises(results_by_rule, config) ==
    LET st == ArbStages(results_by_rule, config)
    IN  \/ \E i \in 1..Len(st.all_hits) : ~HitValid(st.all_hits[i])
        \/ \E i \in 1..Len(st.weighted) :
              ~DetectionResultItemValid(convert_to_detection_results(st.weighted)[i])

arbitrate(results_by_rule, config, hashseed) ==
    IF arbitrate_raises(results_by_rule, config)
    THEN [raised |-> TRUE, results |-> <<>>,
          summary |-> generate_summary(<<>>, hashseed)]
    ELSE LET st    == ArbStages(results_by_rule, config)
             final == sort_results(convert_to_detection_results(st.weighted), config)
         IN  [raised |-> FALSE, results |-> final,
              summary |-> generate_summary(final, hashseed)]

\* calculate_overall_risk_level adds to and compares Python floats
\* (binary64).  A float of [0, 4) that is a multiple of 2^-56 is the pair
\* <<hi, lo>>, standing for (hi * 2^28 + lo) * 2^-56 with 0 <= lo < 2^28.
Limb == 2^28

\* the spacing of the binary64 values around <<hi, lo>>, in units of 2^-56
Spacing(hi) ==
    IF hi >= 2 * Limb THEN 32
    ELSE IF hi >= Limb THEN 16
    ELSE IF 2 * hi >= Limb THEN 8
    ELSE IF 4 * hi >= Limb THEN 4
    ELSE IF 8 * hi >= Limb THEN 2
    ELSE 1

\* round-half-to-even of the exact value <<hi, lo>> plus a rest below one
\* unit (rest: 0 none, 1 under half a unit, 2 half a unit, 3 over half)
RoundDouble(hi, lo, rest) ==
    LET G    == Spacing(hi)
        r    == lo % G
        q    == lo \div G
        up   == IF G = 1
                THEN rest = 3 \/ (rest = 2 /\ q % 2 = 1)
                ELSE \/ 2 * r > G
                     \/ 2 * r = G /\ (rest # 0 \/ q % 2 = 1)
        lo2  == IF up THEN (q + 1) * G ELSE q * G
    IN  IF lo2 >= Limb THEN <<hi + 1, lo2 - Limb>> ELSE <<hi, lo2>>

\* the float nearest to c / 10000 (a literal, or a quotient such as
\* weight / 100.0), by long division in base 2^14; exact for c = 0 and for
\* c / 10000 >= 2^-4, cut to a multiple of 2^-56 below that
DoubleOf(c) ==
    LET B  == 2^14
        q1 == (c * B) \div One
        r1 == (c * B) % One
        q2 == (r1 * B) \div One
        r2 == (r1 * B) % One
        q3 == (r2 * B) \div One
        r3 == (r2 * B) % One
        q4 == (r3 * B) \div One
        r4 == (r3 * B) % One
        rest == IF r4 = 0 THEN 0
                ELSE IF 2 * r4 < One THEN 1
                ELSE IF 2 * r4 = One THEN 2 ELSE 3
        hi == q1 * B + q2
    IN  IF hi >= Limb \div 16 THEN RoundDouble(hi, q3 * B + q4, rest)
        ELSE <<hi, q3 * B + q4>>

\* x + y in binary64
DoubleAdd(x, y) ==
    LET lo == x[2] + y[2]
    IN  IF lo >= Limb THEN RoundDouble(x[1] + y[1] + 1, lo - Limb, 0)
        ELSE RoundDouble(x[1] + y[1], lo, 0)

\* x >= y
DoubleGE(x, y) == x[1] > y[1] \/ (x[1] = y[1] /\ x[2] >= y[2])

\* weighted_score += 0.1, n times
RECURSIVE AddTenths(_, _)
AddTenths(score, n) ==
    IF n = 0 THEN score ELSE AddTenths(DoubleAdd(score, DoubleOf(Tenth(1))), n - 1)

calculate_overall_risk_level(results, config) ==
    IF results = <<>> THEN "low"
    ELSE LET max_confidence ==
                 CHOOSE m \in {results[i].confidence : i \in 1..Len(results)} :
                     \A i \in 1..Len(results) : results[i].confidence <= m
             high == Cardinality({i \in 1..Len(results) :
                        DictGet(config.category_weights, results[i].category, One)
                            >= Tenth(9)})
             with_high == AddTenths(DoubleOf(max_confidence), high)
             weighted_score ==
                 IF Len(results) >= 5 THEN DoubleAdd(with_high, DoubleOf(Tenth(2)))
                 ELSE IF Len(results) >= 3 THEN DoubleAdd(with_high, DoubleOf(Tenth(1)))
                 ELSE with_high
         IN  IF DoubleGE(weighted_score, DoubleOf(Tenth(9))) THEN "critical"
             ELSE IF DoubleGE(weighted_score, DoubleOf(Tenth(7))) THEN "high"
             ELSE IF DoubleGE(weighted_score, DoubleOf(Tenth(5))) THEN "medium"
             ELSE "low"

(***************************************************************************)
(* Characters and texts.                                                   *)
(***************************************************************************)
\* A character is a string: a letter, a blank, a tab, a punctuation mark, or
\* the code point of a character outside ASCII.  U+9AEE is a traditional
\* Han character and U+53D1 the simplified character it is written as.
Alphabet == {"a", "b", "B", " ", "\t", "U+9AEE", "U+53D1"}

\* what \s of re matches and str.strip() strips
IsSpace(c) == c \in {" ", "\t"}

\* The characters between the brackets of noise_chars, other than \s, of
\* rule_engine.py:82 and text_processor.py:102.  The literal is
\* r'[...《》""' followed by ']': the first of the two apostrophes ends the
\* raw string, so the class holds the double quote and no apostrophe.
\* U+FF08, U+FF09, U+3010, U+3011, U+300A, U+300B are the brackets
\* outside ASCII.
NoiseChars ==
    {".", "*", "_", "-", "+", "|", "\\", "/", "[", "]", "{", "}", "(", ")",
     "U+FF08", "U+FF09", "U+3010", "U+3011", "U+300A", "U+300B", "\""}

IsNoise(c) == IsSpace(c) \/ c \in NoiseChars

\* str.isalnum() or a CJK ideograph, per character
IsWordChar(c) == c \in {"a", "b", "B"}

LowerChar(c) == IF c = "B" THEN "b" ELSE c

Lower(text) == [i \in 1..Len(text) |-> LowerChar(text[i])]

RemoveNoise(text) == SelectSeq(text, LAMBDA c : ~IsNoise(c))

IsBlank(text) == \A i \in 1..Len(text) : IsSpace(text[i])

\* str.strip()
Strip(text) ==
    IF IsBlank(text) THEN <<>>
    ELSE LET first == CHOOSE i \in 1..Len(text) :
                        ~IsSpace(text[i]) /\ \A j \in 1..(i - 1) : IsSpace(text[j])
             last  == CHOOSE i \in 1..Len(text) :
                        ~IsSpace(text[i]) /\ \A j \in (i + 1)..Len(text) : IsSpace(text[j])
         IN  SubSeq(text, first, last)

TextsOver(alphabet, n) == UNION {[1..k -> alphabet] : k \in 0..n}

\* the characters of the texts that detection requests carry
RequestAlphabet == {"a", "b", " "}

RequestTexts == TextsOver(RequestAlphabet, MaxTextLen)

\* text[at:at+len(word)] == word, at a 0-based offset
OccursAt(text, word, at) ==
    /\ at >= 0
    /\ at + Len(word) <= Len(text)
    /\ SubSeq(text, at + 1, at + Len(word)) = word

\* str.find(word, from): the least offset >= from at which word occurs, or -1
Find(text, word, from) ==
    LET at == {i \in from..Len(text) : OccursAt(text, word, i)}
    IN  IF at = {} THEN -1 ELSE CHOOSE i \in at : \A j \in at : i <= j

(***************************************************************************)
(* yaml_config_reader.py: the registry.  A registry file on disk is a      *)
(* sequence of entries [name, enabled, weight, lines], lines the lines of  *)
(* the entry's word file.                                                  *)
(***************************************************************************)
WordlistConfig(name, enabled, weight, lines) ==
    [name |-> name, enabled |-> enabled, weight |-> weight, lines |-> lines]

\* WordlistConfig.load_words: the stripped, non-empty lines of the file
load_words(wordlist) ==
    LET stripped == [i \in 1..Len(wordlist.lines) |-> Strip(wordlist.lines[i])]
    IN  SelectSeq(stripped, LAMBDA w : w # <<>>)

get_normalized_weight(wordlist) == wordlist.weight * (One \div 100)

get_enabled_wordlists(wordlists) == SelectSeq(wordlists, LAMBDA wl : wl.enabled)

get_category_weights(wordlists) ==
    [c \in {wordlists[i].name : i \in 1..Len(wordlists)} |->
        get_normalized_weight(
            wordlists[CHOOSE i \in 1..Len(wordlists) :
                        /\ wordlists[i].name = c
                        /\ \A j \in (i + 1)..Len(wordlists) : wordlists[j].name # c])]

\* the registry files the model's disk can hold
RegistryEmpty == <<>>

RegistryOne == << WordlistConfig("c1", TRUE, 100, << <<"a">> >>) >>

RegistryTwo == << WordlistConfig("c1", TRUE, 100, << <<"a", "b">>, <<"b">> >>),
                  WordlistConfig("c2", TRUE, 50, << <<"a">> >>) >>

RegistryDisabled == << WordlistConfig("c1", FALSE, 100, << <<"a">> >>) >>

\* an entry whose weight the operator wrote as a negative number; the
\* reader takes the weight as it is
RegistryNegative == << WordlistConfig("c1", TRUE, -100, << <<"a">> >>) >>

Registries ==
    {RegistryEmpty, RegistryOne, RegistryTwo, RegistryDisabled, RegistryNegative}

(***************************************************************************)
(* rule_engine.py                                                          *)
(***************************************************************************)
\* DetectionConfig as a request carries it
DetectionConfig(mode, categories, return_positions) ==
    [detection_mode |-> mode, categories |-> categories,
     return_positions |-> return_positions]

\* words_by_category as _load_wordlists_for_rules builds it: the enabled
\* entries in order, entries of one name extended into one list
words_by_category(wordlists) ==
    LET enabled == get_enabled_wordlists(wordlists)
        firsts  == SelectIdx(enabled, LAMBDA i :
                       \A j \in 1..(i - 1) : enabled[j].name # enabled[i].name)
    IN  [k \in 1..Len(firsts) |->
            [category |-> firsts[k].name,
             words |-> Concat([i \in 1..Len(enabled) |->
                          IF enabled[i].name = firsts[k].name
                          THEN load_words(enabled[i]) ELSE <<>>])]]

\* ExactMatchRule.preprocess_text
exact_preprocess_text(text, rule_config) ==
    LET lowered == IF rule_config.case_sensitive THEN text ELSE Lower(text)
    IN  IF rule_config.remove_spaces THEN RemoveNoise(lowered) ELSE lowered

\* JiebaRule.preprocess_text
jieba_preprocess_text(text, rule_config) ==
    IF rule_config.case_sensitive THEN text ELSE Lower(text)

\* The keys one category's automaton holds after the add_word calls of
\* load_wordlist: pairs <<key, original word>>, a later add_word of the same
\* key replacing the earlier one.
exact_automaton(words, rule_config) ==
    LET key(i) == exact_preprocess_text(Strip(words[i]), rule_config)
        added  == {i \in 1..Len(words) : Strip(words[i]) # <<>> /\ key(i) # <<>>}
    IN  {<<key(i), words[i]>> : i \in {i \in added :
                                    \A j \in added : key(j) = key(i) => j <= i}}

\* ExactMatchRule.load_wordlist: the automatons after clear() and the loop;
\* a category with no words gets no automaton.
exact_load_wordlist(wbc, rule_config) ==
    LET kept == SelectSeq(wbc, LAMBDA e : e.words # <<>>)
    IN  [k \in 1..Len(kept) |->
            [category |-> kept[k].category,
             entries |-> exact_automaton(kept[k].words, rule_config)]]

\* JiebaRule.load_wordlist: one word set per category
jieba_load_wordlist(wbc, rule_config) ==
    [k \in 1..Len(wbc) |->
        [category |-> wbc[k].category,
         entries |->
            {<<w, w>> : w \in
                {jieba_preprocess_text(Strip(wbc[k].words[i]), rule_config) :
                    i \in 1..Len(wbc[k].words)} \ {<<>>}}]]

\* Automaton.iter(text): for each 0-based end index in ascending order, the
\* keys that end there, the longest first.
automaton_iter(entries, text) ==
    Concat([e1 \in 1..Len(text) |->
        LET at == {en \in entries : OccursAt(text, en[1], e1 - Len(en[1]))}
        IN  [k \in 1..Cardinality(at) |->
                LET en == CHOOSE en \in at :
                            Cardinality({o \in at : Len(o[1]) >= Len(en[1])}) = k
                IN  [end_index |-> e1 - 1, original_word |-> en[2]]]])

ExactRuleConfig == [remove_spaces |-> TRUE, case_sensitive |-> FALSE,
                    check_boundaries |-> TRUE]

JiebaRuleConfig == [case_sensitive |-> FALSE, cut_all |-> FALSE]

\* a segmenter rule configured with cut_all: true
JiebaFullConfig == [case_sensitive |-> FALSE, cut_all |-> TRUE]

\* ExactMatchRule.is_valid_match; end is the index of the match's last character
exact_is_valid_match(text, start, end) ==
    /\ ~(start > 0 /\ IsWordChar(text[start]))
    /\ ~(end < Len(text) - 1 /\ IsWordChar(text[end + 2]))

\* the list a rule's detect builds, or the exception it ends with
Returned(results) == [raised |-> FALSE, results |-> results]

Raised == [raised |-> TRUE, results |-> <<>>]

categories_to_check(loaded, config) ==
    IF config.categories # <<>> THEN config.categories
    ELSE [k \in 1..Len(loaded) |-> loaded[k].category]

LoadedFor(loaded, category) ==
    loaded[CHOOSE k \in 1..Len(loaded) : loaded[k].category = category]

IsLoaded(loaded, category) == \E k \in 1..Len(loaded) : loaded[k].category = category

\* ExactMatchRule.detect over one category: the matches the loop visits, with
\* the span each would report
exact_category_matches(loaded, category, processed_text, rule_config) ==
    IF ~IsLoaded(loaded, category) THEN <<>>
    ELSE LET found == automaton_iter(LoadedFor(loaded, category).entries,
                                     processed_text)
             spans == [i \in 1..Len(found) |->
                         [word |-> found[i].original_word,
                          category |-> category,
                          start |-> found[i].end_index
                                      - Len(found[i].original_word) + 1,
                          end_index |-> found[i].end_index]]
         IN  SelectSeq(spans, LAMBDA m :
                 ~rule_config.check_boundaries
                 \/ exact_is_valid_match(processed_text, m.start, m.end_index))

\* Automaton.iter raises on an automaton that holds no key (make_automaton
\* leaves an empty trie unbuilt).
exact_detect(loaded, rule_config, text, config) ==
    IF IsBlank(text) THEN Returned(<<>>)
    ELSE LET processed_text == exact_preprocess_text(text, rule_config)
             cats    == categories_to_check(loaded, config)
             matches == Concat([c \in 1..Len(cats) |->
                            exact_category_matches(loaded, cats[c],
                                                   processed_text, rule_config)])
         IN  IF \/ \E c \in 1..Len(cats) :
                      IsLoaded(loaded, cats[c])
                      /\ LoadedFor(loaded, cats[c]).entries = {}
                \/ /\ config.return_positions
                   /\ \E i \in 1..Len(matches) :
                        ~PositionValid(matches[i].start, matches[i].end_index + 1)
             THEN Raised
             ELSE Returned([i \in 1..Len(matches) |->
                     DetectionResultItem(
                         matches[i].word, matches[i].category, One,
                         IF config.return_positions
                         THEN << <<matches[i].start, matches[i].end_index + 1>> >>
                         ELSE <<>>)])

\* jieba.cut(text): some division of the text into consecutive non-empty
\* tokens; which one is the segmenter's choice.
TokensAt(text, cuts) ==
    LET bounds == cuts \cup {0, Len(text)}
        nth(k) == CHOOSE b \in bounds : Cardinality({c \in bounds : c <= b}) = k
    IN  [k \in 1..(Cardinality(bounds) - 1) |->
            SubSeq(text, nth(k) + 1, nth(k + 1))]

Segmentations(text) ==
    IF text = <<>> THEN {<<>>}
    ELSE {TokensAt(text, cuts) : cuts \in SUBSET (1..(Len(text) - 1))}

\* the words jieba.add_word was given by the load that built these word sets
jieba_added(loaded) ==
    UNION {{en[1] : en \in loaded[k].entries} : k \in 1..Len(loaded)}

\* jieba.cut(text) with a segmenter whose dictionary holds the added words:
\* where dictionary words begin, the longest of them is cut out as a token
\* (add_word gives a word the frequency that makes it one); the characters
\* between such tokens are divided as the segmenter chooses.
jieba_cut(text, dictionary) ==
    LET longest(p) ==
            LET here == {Len(w) : w \in {w \in dictionary : OccursAt(text, w, p)}}
            IN  IF here = {} THEN 0 ELSE CHOOSE n \in here : \A m \in here : m <= n
        offset(wl, t) == SumSeq([i \in 1..(t - 1) |-> Len(wl[i])])
    IN  {wl \in Segmentations(text) :
            \A t \in 1..Len(wl) :
                IF longest(offset(wl, t)) > 0
                THEN Len(wl[t]) = longest(offset(wl, t))
                ELSE \A q \in 1..(Len(wl[t]) - 1) : longest(offset(wl, t) + q) = 0}

\* jieba.cut(text, cut_all=True): from each offset k in turn, every
\* dictionary word that begins at k and is longer than one character, the
\* shortest first; a lone candidate at k (one word, or the character itself
\* when no word begins there) is yielded if k lies beyond the end of the
\* last token yielded.  old_j is that end, k and old_j count from 0.
RECURSIVE jieba_cut_all(_, _, _, _)
jieba_cut_all(text, dictionary, k, old_j) ==
    IF k >= Len(text) THEN <<>>
    ELSE LET ends == {k + Len(w) - 1 :
                         w \in {w \in dictionary : OccursAt(text, w, k)}}
             L    == IF ends = {} THEN {k} ELSE ends
             more == {j \in L : j > k}
             nth(i) == CHOOSE j \in more : Cardinality({m \in more : m <= j}) = i
         IN  IF Cardinality(L) = 1 /\ k > old_j
             THEN LET j == CHOOSE j \in L : TRUE
                  IN  <<SubSeq(text, k + 1, j + 1)>>
                          \o jieba_cut_all(text, dictionary, k + 1, j)
             ELSE [i \in 1..Cardinality(more) |-> SubSeq(text, k + 1, nth(i) + 1)]
                      \o jieba_cut_all(text, dictionary, k + 1,
                              IF more = {} THEN old_j ELSE nth(Cardinality(more)))

\* the word lists list(words) can be in JiebaRule.detect
jieba_word_lists(rule_config, processed_text, dictionary) ==
    IF rule_config.cut_all
    THEN {jieba_cut_all(processed_text, dictionary, 0, -1)}
    ELSE jieba_cut(processed_text, dictionary)

\* JiebaRule.detect, word_list being what jieba.cut returned
jieba_detect(loaded, rule_config, text, config, word_list) ==
    IF IsBlank(text) THEN Returned(<<>>)
    ELSE LET processed_text == jieba_preprocess_text(text, rule_config)
             cats == categories_to_check(loaded, config)
             current_pos(t) == SumSeq([i \in 1..(t - 1) |-> Len(word_list[i])])
             hit(t, c) ==
                 /\ ~IsBlank(word_list[t])
                 /\ IsLoaded(loaded, cats[c])
                 /\ <<word_list[t], word_list[t]>> \in LoadedFor(loaded, cats[c]).entries
                 /\ Find(processed_text, word_list[t], current_pos(t)) # -1
             item(t, c) ==
                 LET start_pos == Find(processed_text, word_list[t], current_pos(t))
                 IN  DetectionResultItem(
                         word_list[t], cats[c], Tenth(9),
                         IF config.return_positions
                         THEN << <<start_pos, start_pos + Len(word_list[t])>> >>
                         ELSE <<>>)
         IN  Returned(Concat([t \in 1..Len(word_list) |->
                 Concat([c \in 1..Len(cats) |->
                     IF hit(t, c) THEN <<item(t, c)>> ELSE <<>>])]))

RegexRuleConfig == [case_sensitive |-> FALSE]

\* RegexRule.load_wordlist: per category the patterns compiled from the
\* escaped, stripped words; a pattern of an escaped word matches where the
\* word occurs, in any case unless case_sensitive
regex_load_wordlist(wbc, rule_config) ==
    [k \in 1..Len(wbc) |->
        [category |-> wbc[k].category,
         entries |->
            {<<IF rule_config.case_sensitive THEN w ELSE Lower(w), w>> :
                w \in {Strip(wbc[k].words[i]) : i \in 1..Len(wbc[k].words)}
                          \ {<<>>}}]]

\* RegexRule.detect: the item built for the first match names
\* MatchType.REGEX, which MatchType does not have (EXACT and FUZZY only), so
\* a detect that finds a match ends with AttributeError
regex_detect(loaded, rule_config, text, config) ==
    IF IsBlank(text) THEN Returned(<<>>)
    ELSE LET processed_text == IF rule_config.case_sensitive THEN text
                               ELSE Lower(text)
             cats == categories_to_check(loaded, config)
         IN  IF \E c \in 1..Len(cats) :
                   /\ IsLoaded(loaded, cats[c])
                   /\ \E en \in LoadedFor(loaded, cats[c]).entries :
                         \E at \in 0..Len(processed_text) :
                             OccursAt(processed_text, en[1], at)
             THEN Raised
             ELSE Returned(<<>>)

(***************************************************************************)
(* enhanced_detection_service.py                                           *)
(***************************************************************************)
VARIABLES
    wordlists,          \* config_reader.wordlists
    rules,              \* self.rules, in insertion order
    category_weights,   \* arbitrator.config.category_weights
    request_count,      \* self.request_count
    hashseed,           \* the hash salt of the process that holds the service
    response,           \* what the last detect call gave its caller
    det,                \* a detect call in flight on another thread
    rel,                \* a reload call in flight on another thread
    arbIn,              \* a bare arbitrator: its config and the per-rule input
    arbOut,             \* what its arbitrate calls on that input returned
    legacy,             \* the SensitiveWordDetectionService instance
    legacyResponse,     \* what its last detect call gave its caller
    engine,             \* a rule object used on its own
    engineOut,          \* what its last detect call returned
    prep                \* a TextPreprocessor call: its text and what came back

serviceVars == <<wordlists, rules, category_weights, request_count, hashseed, response>>
threadVars  == <<det, rel>>
arbVars     == <<arbIn, arbOut>>
legacyVars  == <<legacy, legacyResponse>>
engineVars  == <<engine, engineOut>>
textVars    == <<prep>>
vars == <<serviceVars, threadVars, arbVars, legacyVars, engineVars, textVars>>

\* DetectionRequest.text: Field(min_length=1, max_length=10000)
RequestMaxLength == 10000

DetectionRequestValid(text) == Len(text) >= 1 /\ Len(text) <= RequestMaxLength

Rule(name, rule_type, rule_config, loaded) ==
    [name |-> name, rule_type |-> rule_type, enabled |-> TRUE,
     config |-> rule_config, loaded |-> loaded]

\* _create_default_rules: two rules, constructed and not yet loaded
create_default_rules ==
    << Rule("default_exact", "exact", ExactRuleConfig, <<>>),
       Rule("default_jieba", "jieba", JiebaRuleConfig, <<>>) >>

\* rule.load_wordlist(words_by_category), by rule variant
load_wordlist(rule, wbc) ==
    IF rule.rule_type = "exact"
    THEN [rule EXCEPT !.loaded = exact_load_wordlist(wbc, rule.config)]
    ELSE IF rule.rule_type = "jieba"
    THEN [rule EXCEPT !.loaded = jieba_load_wordlist(wbc, rule.config)]
    ELSE [rule EXCEPT !.loaded = regex_load_wordlist(wbc, rule.config)]

\* _load_wordlists_for_rules
load_wordlists_for_rules(rs, registry) ==
    [k \in 1..Len(rs) |-> load_wordlist(rs[k], words_by_category(registry))]

\* _load_detection_rules, the registry being what reload_config read
load_detection_rules(registry) ==
    load_wordlists_for_rules(create_default_rules, registry)

\* DetectionResultArbitrator.__init__: the weights are read from the registry
\* when the arbitrator is constructed
arbitrator_config(weights) == DefaultArbitrationConfig(weights)

\* _get_rules_for_mode.  DetectionMode has the members RULE and HYBRID only:
\* for a mode other than RULE the comparison with DetectionMode.SEMANTIC
\* raises AttributeError.
get_rules_for_mode(rs, detection_mode) ==
    IF detection_mode = "rule"
    THEN [raised |-> FALSE,
          rules |-> SelectSeq(rs, LAMBDA r : r.rule_type # "semantic")]
    ELSE [raised |-> TRUE, rules |-> <<>>]

\* a variant in which a rule without loaded structures raises
rule_detect_loaded_only(rule, text, config, word_list, faults) ==
    IF rule.name \in faults \/ rule.loaded = <<>> THEN Raised
    ELSE IF rule.rule_type = "exact"
         THEN exact_detect(rule.loaded, rule.config, text, config)
         ELSE IF rule.rule_type = "jieba"
         THEN jieba_detect(rule.loaded, rule.config, text, config, word_list)
         ELSE regex_detect(rule.loaded, rule.config, text, config)

\* rule.detect by rule variant; faults are the rules whose detect raises for
\* a reason outside the model (the segmenter, the automaton library)
rule_detect(rule, text, config, word_list, faults) ==
    IF rule.name \in faults THEN Raised
    ELSE IF rule.rule_type = "exact"
         THEN exact_detect(rule.loaded, rule.config, text, config)
         ELSE IF rule.rule_type = "jieba"
         THEN jieba_detect(rule.loaded, rule.config, text, config, word_list)
         ELSE regex_detect(rule.loaded, rule.config, text, config)

\* the entry _execute_multi_rule_detection stores for one rule
rule_entry(rule, text, config, word_list, faults) ==
    LET got == rule_detect(rule, text, config, word_list, faults)
    IN  [rule |-> rule.name,
         results |-> IF got.raised THEN <<>> ELSE got.results]

\* a variant with the try around the loop instead of inside it: the first
\* rule that raises ends the loop
execute_multi_rule_detection_try_outside(rules_to_use, text, config, word_list, faults) ==
    LET enabled == SelectSeq(rules_to_use, LAMBDA r : r.enabled)
        raising == {k \in 1..Len(enabled) :
                      rule_detect(enabled[k], text, config, word_list, faults).raised}
        n == IF raising = {} THEN Len(enabled)
             ELSE (CHOOSE k \in raising : \A j \in raising : k <= j) - 1
    IN  [k \in 1..n |-> rule_entry(enabled[k], text, config, word_list, faults)]

execute_multi_rule_detection(rules_to_use, text, config, word_list, faults) ==
    LET enabled == SelectSeq(rules_to_use, LAMBDA r : r.enabled)
    IN  [k \in 1..Len(enabled) |->
            rule_entry(enabled[k], text, config, word_list, faults)]

NoSummary == generate_summary(<<>>, 0)

\* detect raised: the caller gets an exception and no DetectionResponse
Failure(error, text, config, invoked) ==
    [outcome |-> error, text |-> text, config |-> config,
     invoked |-> invoked, failed |-> {}, results_by_rule |-> <<>>,
     is_sensitive |-> FALSE, risk_level |-> "low", overall_score |-> 0,
     results |-> <<>>, summary |-> NoSummary]

NoResponse == Failure("none", <<>>, DetectionConfig("rule", <<>>, TRUE), {})

MaxConfidence(results) ==
    CHOOSE m \in {results[i].confidence : i \in 1..Len(results)} :
        \A i \in 1..Len(results) : results[i].confidence <= m

\* a variant that takes is_sensitive from the per-rule dict, which has an
\* entry for every rule that ran
build_response_sensitive_by_rules(text, config, rules_run, failed, results_by_rule, weights, seed) ==
    LET arb == arbitrate(results_by_rule, arbitrator_config(weights), seed)
    IN  IF arb.raised
        THEN Failure("DetectionError", text, config, rules_run)
        ELSE [outcome |-> "ok", text |-> text, config |-> config,
              invoked |-> rules_run, failed |-> failed,
              results_by_rule |-> results_by_rule,
              is_sensitive |-> Len(results_by_rule) > 0,
              risk_level |-> calculate_overall_risk_level(
                                 arb.results, arbitrator_config(weights)),
              overall_score |-> IF arb.results = <<>> THEN 0
                                ELSE MaxConfidence(arb.results),
              results |-> arb.results,
              summary |-> arb.summary]

\* a variant that answers with the rules' unarbitrated results when the
\* arbitrator raises
build_response_fail_open(text, config, rules_run, failed, results_by_rule, weights, seed) ==
    LET arb == arbitrate(results_by_rule, arbitrator_config(weights), seed)
        raw == Concat([k \in 1..Len(results_by_rule) |-> results_by_rule[k].results])
        results == IF arb.raised THEN raw ELSE arb.results
    IN  [outcome |-> "ok", text |-> text, config |-> config,
         invoked |-> rules_run, failed |-> failed,
         results_by_rule |-> results_by_rule,
         is_sensitive |-> Len(results) > 0,
         risk_level |-> IF arb.raised THEN "low"
                        ELSE calculate_overall_risk_level(
                                 arb.results, arbitrator_config(weights)),
         overall_score |-> IF results = <<>> THEN 0 ELSE MaxConfidence(results),
         results |-> results,
         summary |-> arb.summary]

\* detect from the arbitration on: lines 164-193
build_response(text, config, rules_run, failed, results_by_rule, weights, seed) ==
    LET arb == arbitrate(results_by_rule, arbitrator_config(weights), seed)
    IN  IF arb.raised
        THEN Failure("DetectionError", text, config, rules_run)
        ELSE [outcome |-> "ok", text |-> text, config |-> config,
              invoked |-> rules_run, failed |-> failed,
              results_by_rule |-> results_by_rule,
              is_sensitive |-> Len(arb.results) > 0,
              risk_level |-> calculate_overall_risk_level(
                                 arb.results, arbitrator_config(weights)),
              overall_score |-> IF arb.results = <<>> THEN 0
                                ELSE MaxConfidence(arb.results),
              results |-> arb.results,
              summary |-> arb.summary]

\* a variant without the length check
text_too_long_unchecked(text) == FALSE

\* the length check of detect, line 158
text_too_long(text) == Len(text) > max_text_length

\* EnhancedDetectionService.detect on a constructed request
detect(rs, weights, seed, text, config, word_list, faults) ==
    IF text_too_long(text)
    THEN Failure("DetectionError", text, config, {})
    ELSE LET sel == get_rules_for_mode(rs, config.detection_mode)
         IN  IF sel.raised
             THEN Failure("DetectionError", text, config, {})
             ELSE LET run == SelectSeq(sel.rules, LAMBDA r : r.enabled)
                      rbr == execute_multi_rule_detection(
                                 sel.rules, text, config, word_list, faults)
                  IN  build_response(
                          text, config,
                          {run[k].name : k \in 1..Len(run)},
                          {run[k].name : k \in
                              {k \in 1..Len(run) :
                                  rule_detect(run[k], text, config,
                                              word_list, faults).raised}},
                          rbr, weights, seed)

DetectionConfigs ==
    {DetectionConfig(m, c, p) :
        m \in {"rule", "hybrid"}, c \in {<<>>, <<"c1">>}, p \in BOOLEAN}

RuleNames == {"default_exact", "default_jieba"}

\* no thread is inside detect, none inside a reload
DetIdle == [pc |-> "idle", held |-> <<>>, live |-> FALSE, next |-> 1, seen |-> <<>>]

RelIdle == [pc |-> "idle", kind |-> "reload_rules", before |-> RegistryEmpty,
            after |-> RegistryEmpty, rule |-> 1, category |-> 0]

ServiceInit ==
    /\ \E registry \in Registries :
        /\ wordlists = registry
        /\ rules = load_detection_rules(registry)
        /\ category_weights = get_category_weights(registry)
    /\ request_count = 0
    /\ hashseed \in HashSeeds
    /\ response = NoResponse

ThreadsIdle == det = DetIdle /\ rel = RelIdle

ArbIdle == arbIn = <<>> /\ arbOut = <<>>

\* no rule object is in use on its own
NoEngineOutput ==
    [called |-> FALSE, text |-> <<>>, word_list |-> <<>>,
     config |-> DetectionConfig("rule", <<>>, TRUE), got |-> Returned(<<>>)]

EngineIdle ==
    /\ engine = [rule |-> Rule("none", "exact", ExactRuleConfig, <<>>),
                 ever_loaded |-> FALSE, loads |-> 0, dictionary |-> {}]
    /\ engineOut = NoEngineOutput

\* a TextPreprocessor and the text it is given; nothing called yet
Preprocessor(text) ==
    [text |-> text, normalized |-> <<>>, cleaned |-> <<>>, split |-> <<>>]

PrepIdle == prep = Preprocessor(<<>>)

\* the caller of the last request has its answer, and the run has requests left
CanServe ==
    /\ response = NoResponse
    /\ legacyResponse = NoResponse
    /\ request_count + legacy.request_count < MaxRequests

\* whether detect ends before it runs any rule
ends_early(rs, text, config) ==
    text_too_long(text) \/ get_rules_for_mode(rs, config.detection_mode).raised

\* health_check, of either service: the fields that come from the counter
health_check(count) == [status |-> "healthy", request_count |-> count]

\* a variant that counts a request only when it was answered
Detect_count_answered(text, config) ==
    /\ CanServe
    /\ DetectionRequestValid(text)
    /\ IF ends_early(rules, text, config)
       THEN response' = detect(rules, category_weights, hashseed,
                               text, config, <<>>, {})
       ELSE \E faults \in SUBSET RuleNames :
            \E word_list \in Segmentations(Lower(text)) :
               response' = detect(rules, category_weights, hashseed,
                                  text, config, word_list, faults)
    /\ request_count' = IF response'.outcome = "ok" THEN request_count + 1
                        ELSE request_count
    /\ UNCHANGED <<wordlists, rules, category_weights, hashseed>>
    /\ UNCHANGED <<threadVars, arbVars, engineVars, legacyVars, textVars>>

\* A caller builds a DetectionRequest and awaits detect(request).  A text the
\* request model rejects never reaches detect.  What the segmenter returns
\* and which rules fail are settled only when the rules run.
Detect(text, config) ==
    /\ CanServe
    /\ IF ~DetectionRequestValid(text)
       THEN /\ response' = Failure("ValidationError", text, config, {})
            /\ UNCHANGED request_count
       ELSE /\ request_count' = request_count + 1
            /\ IF ends_early(rules, text, config)
               THEN response' = detect(rules, category_weights, hashseed,
                                       text, config, <<>>, {})
               ELSE \E faults \in SUBSET RuleNames :
                    \E word_list \in Segmentations(Lower(text)) :
                       response' = detect(rules, category_weights, hashseed,
                                          text, config, word_list, faults)
    /\ UNCHANGED <<wordlists, rules, category_weights, hashseed>>
    /\ UNCHANGED <<threadVars, arbVars, engineVars, legacyVars, textVars>>

\* the caller takes the response (or the exception)
Return ==
    /\ response # NoResponse
    /\ response' = NoResponse
    /\ UNCHANGED <<wordlists, rules, category_weights, request_count, hashseed>>
    /\ UNCHANGED <<threadVars, arbVars, engineVars, legacyVars, textVars>>

\* reload_rules: rules.clear(), then _load_detection_rules; registry is the
\* file as reload_config reads it
ReloadRules(registry) ==
    /\ response = NoResponse
    /\ legacyResponse = NoResponse
    /\ wordlists' = registry
    /\ rules' = load_detection_rules(registry)
    /\ UNCHANGED <<category_weights, request_count, hashseed, response>>
    /\ UNCHANGED <<threadVars, arbVars, engineVars, legacyVars, textVars>>

\* reload_wordlists: reload_config, then load_wordlist on the rules in place
ReloadWordlists(registry) ==
    /\ response = NoResponse
    /\ legacyResponse = NoResponse
    /\ wordlists' = registry
    /\ rules' = load_wordlists_for_rules(rules, registry)
    /\ UNCHANGED <<category_weights, request_count, hashseed, response>>
    /\ UNCHANGED <<threadVars, arbVars, engineVars, legacyVars, textVars>>

\* reload_config: reload_config, rules.clear(), then _load_detection_rules
ReloadConfig(registry) ==
    /\ response = NoResponse
    /\ legacyResponse = NoResponse
    /\ wordlists' = registry
    /\ rules' = load_detection_rules(registry)
    /\ UNCHANGED <<category_weights, request_count, hashseed, response>>
    /\ UNCHANGED <<threadVars, arbVars, engineVars, legacyVars, textVars>>

(***************************************************************************)
(* text_processor.py, rule_detector.py, detection_service.py: the older    *)
(* SensitiveWordDetectionService.                                          *)
(***************************************************************************)
\* OpenCC('t2s').convert: each traditional character becomes the simplified
\* character it is written as, every other character stays
ConvertChar(c) == IF c = "U+9AEE" THEN "U+53D1" ELSE c

convert(text) == [i \in 1..Len(text) |-> ConvertChar(text[i])]

\* re.sub(r'\s\s', ' ', text): each pair of whitespace characters, taken
\* from the left, becomes one space
RECURSIVE SqueezePairs(_)
SqueezePairs(text) ==
    IF text = <<>> THEN <<>>
    ELSE IF Len(text) >= 2 /\ IsSpace(text[1]) /\ IsSpace(text[2])
         THEN <<" ">> \o SqueezePairs(SubSeq(text, 3, Len(text)))
         ELSE <<text[1]>> \o SqueezePairs(Tail(text))

\* normalize with the whitespace of the text squeezed pair by pair
normalize_pairs(text) ==
    IF text = <<>> THEN <<>>
    ELSE Strip(SqueezePairs(Lower(convert(text))))

\* TextPreprocessor.normalize with remove_noise=False: script conversion,
\* lower case, re.sub(r'\s+', ' ', text) and strip
normalize(text) ==
    IF text = <<>> THEN <<>>
    ELSE LET lowered == Lower(convert(text))
             first   == SelectIdx(lowered, LAMBDA i :
                            ~(IsSpace(lowered[i]) /\ i > 1 /\ IsSpace(lowered[i - 1])))
             spaced  == [i \in 1..Len(first) |->
                            IF IsSpace(first[i]) THEN " " ELSE first[i]]
         IN  Strip(spaced)

\* TextPreprocessor.clean_for_matching
clean_for_matching(text) == IF text = <<>> THEN <<>> ELSE RemoveNoise(text)

\* RuleBasedDetector.load_wordlists: the keys of the one automaton, each with
\* its value <<word, category>>; a later add_word of a key replaces the value
detector_load_wordlists(registry) ==
    LET enabled == get_enabled_wordlists(registry)
        lines   == Concat([k \in 1..Len(enabled) |->
                      LET words == load_words(enabled[k])
                      IN  [i \in 1..Len(words) |->
                              [key |-> normalize(words[i]), word |-> words[i],
                               category |-> enabled[k].name]]])
        added   == {i \in 1..Len(lines) :
                      /\ lines[i].word # <<>>
                      /\ lines[i].word[1] # "#"
                      /\ lines[i].key # <<>>}
    IN  {<<lines[i].key, <<lines[i].word, lines[i].category>> >> :
            i \in {i \in added : \A j \in added :
                                    lines[j].key = lines[i].key => j <= i}}

\* SensitiveWordDetectionService.__init__: the detector is built, not loaded
LegacyService(loaded, entries, count) ==
    [loaded |-> loaded, entries |-> entries, request_count |-> count]

LegacyIdle == legacy = LegacyService(FALSE, {}, 0) /\ legacyResponse = NoResponse

\* the detector after "if not self.loaded: await self.load_wordlists()"
detector_loaded(service, registry) ==
    IF service.loaded THEN service
    ELSE LegacyService(TRUE, detector_load_wordlists(registry),
                       service.request_count)

\* RuleBasedDetector.detect on a loaded detector
detector_detect(entries, text, config) ==
    IF IsBlank(text) \/ entries = {} THEN Returned(<<>>)
    ELSE LET cleaned_text == clean_for_matching(normalize(text))
             found == automaton_iter(entries, cleaned_text)
             kept  == SelectSeq(found, LAMBDA m :
                          config.categories = <<>>
                          \/ m.original_word[2] \in Range(config.categories))
             start_index(m) == m.end_index - Len(m.original_word[1]) + 1
         IN  IF /\ config.return_positions
                /\ \E i \in 1..Len(kept) :
                     ~PositionValid(start_index(kept[i]), kept[i].end_index + 1)
             THEN Raised
             ELSE Returned([i \in 1..Len(kept) |->
                     DetectionResultItem(
                         kept[i].original_word[1], kept[i].original_word[2], One,
                         IF config.return_positions
                         THEN << <<start_index(kept[i]), kept[i].end_index + 1>> >>
                         ELSE <<>>)])

\* _merge_and_deduplicate_results: the first result of each (word, category),
\* replaced by a later one of higher confidence; then sorted by confidence,
\* highest first
merge_and_deduplicate_results(results) ==
    LET same(i, j) == /\ results[i].matched_word = results[j].matched_word
                      /\ results[i].category = results[j].category
        firsts == {i \in 1..Len(results) : \A j \in 1..(i - 1) : ~same(i, j)}
        \* the result the slot opened by results[i] holds in the end
        RECURSIVE slot(_, _, _)
        slot(i, j, held) ==
            IF j > Len(results) THEN held
            ELSE IF same(i, j) /\ results[j].confidence > held.confidence
                 THEN slot(i, j + 1, results[j])
                 ELSE slot(i, j + 1, held)
        unique == SelectIdx([i \in 1..Len(results) |-> slot(i, i + 1, results[i])],
                            LAMBDA i : i \in firsts)
    IN  StableSortByKey(unique,
            [i \in 1..Len(unique) |-> <<0 - unique[i].confidence, 0>>])

\* _calculate_risk_level
calculate_risk_level(overall_score, results) ==
    IF results = <<>> THEN "low"
    ELSE IF overall_score >= Tenth(9) \/ Len(results) >= 5 THEN "critical"
    ELSE IF overall_score >= Tenth(7) \/ Len(results) >= 3 THEN "high"
    ELSE IF overall_score >= Tenth(5) \/ Len(results) >= 1 THEN "medium"
    ELSE "low"

\* _build_response
legacy_build_response(text, config, found, results, seed) ==
    LET overall_score == IF results = <<>> THEN 0 ELSE MaxConfidence(results)
        highest == IF results = <<>> THEN NoCategory
                   ELSE results[CHOOSE i \in 1..Len(results) :
                            /\ results[i].confidence = overall_score
                            /\ \A j \in 1..(i - 1) :
                                  results[j].confidence # overall_score].category
    IN  [outcome |-> "ok", text |-> text, config |-> config,
         invoked |-> {"rule_detector"}, failed |-> {},
         results_by_rule |-> << [rule |-> "rule_detector", results |-> found] >>,
         is_sensitive |-> Len(results) > 0,
         risk_level |-> calculate_risk_level(overall_score, results),
         overall_score |-> overall_score,
         results |-> results,
         summary |-> [total_matches |-> Len(results),
                      categories_found |->
                          SetToList({results[i].category : i \in 1..Len(results)},
                                    seed),
                      highest_risk_category |-> highest]]

\* _execute_detection reaches the detector in RULE mode only: for any other
\* mode the comparison with DetectionMode.SEMANTIC raises AttributeError.
legacy_runs_detector(text, config) ==
    ~text_too_long(text) /\ config.detection_mode = "rule"

\* SensitiveWordDetectionService.detect on a constructed request
legacy_detect(service, registry, seed, text, config) ==
    IF ~legacy_runs_detector(text, config)
    THEN Failure("DetectionError", text, config, {})
    ELSE LET got == detector_detect(detector_loaded(service, registry).entries,
                                    text, config)
         IN  IF got.raised
             THEN Failure("DetectionError", text, config, {"rule_detector"})
             ELSE legacy_build_response(
                      text, config, got.results,
                      merge_and_deduplicate_results(got.results), seed)

\* A caller awaits the older service's detect(request).  The detector reads
\* the registry on its first use.
LegacyDetect(text, config) ==
    /\ CanServe
    /\ IF ~DetectionRequestValid(text)
       THEN /\ legacyResponse' = Failure("ValidationError", text, config, {})
            /\ UNCHANGED legacy
       ELSE /\ legacyResponse' = legacy_detect(legacy, wordlists, hashseed,
                                               text, config)
            /\ legacy' =
                 LET s == IF legacy_runs_detector(text, config)
                          THEN detector_loaded(legacy, wordlists) ELSE legacy
                 IN  [s EXCEPT !.request_count = @ + 1]
    /\ UNCHANGED <<serviceVars, threadVars, arbVars, engineVars, textVars>>

LegacyReturn ==
    /\ legacyResponse # NoResponse
    /\ legacyResponse' = NoResponse
    /\ UNCHANGED <<serviceVars, threadVars, arbVars, engineVars, legacy, textVars>>

\* the requests the model's callers send
ServeDetect ==
    /\ CanServe
    /\ \E text \in RequestTexts, config \in DetectionConfigs : Detect(text, config)

ServeLegacyDetect ==
    /\ CanServe
    /\ \E text \in RequestTexts, config \in DetectionConfigs :
          LegacyDetect(text, config)

Init == ServiceInit /\ ThreadsIdle /\ ArbIdle /\ LegacyIdle /\ EngineIdle /\ PrepIdle

Next ==
    \/ ServeDetect
    \/ Return
    \/ ServeLegacyDetect
    \/ LegacyReturn
    \/ \E registry \in Registries : ReloadRules(registry)
    \/ \E registry \in Registries : ReloadWordlists(registry)
    \/ \E registry \in Registries : ReloadConfig(registry)

Spec == Init /\ [][Next]_vars

(***************************************************************************)
(* A DetectionResultArbitrator used on its own: constructed with a config  *)
(* and given a per-rule dict of results, as result_arbitrator.py allows.   *)
(* arbitrate is called on the same input up to twice: in a process of hash *)
(* salt 0, then in a process of any hash salt.                             *)
(***************************************************************************)
\* rules named after the keys of the default engine weights
ArbRuleOrders == { <<"ExactMatchRule", "JiebaRule">>,
                   <<"JiebaRule", "ExactMatchRule">> }

\* the confidence each rule gives its results (rule_engine.py:143, 258)
RuleConfidence(rule_name) ==
    IF rule_name = "ExactMatchRule" THEN One ELSE Tenth(9)

ArbWords == { <<"a">>, <<"a", "b">> }

\* start offsets of the spans: the adjacent ones, and one that lies further
\* from offset 0 than the position tolerance of 2 (result_arbitrator.py:222)
ArbStarts == (0..MaxStart) \cup {MaxStart + 2}

\* the spans of the results: each word in each category at the adjacent
\* offsets, and the one-character word of c1 at the far offset
ArbSpans ==
    {sp \in [word : ArbWords, category : Categories, start : ArbStarts] :
        sp.start > MaxStart => (sp.word = <<"a">> /\ sp.category = "c1")}

\* the results a rule can report, with or without positions
ArbItems(rule_name, with_positions) ==
    IF with_positions
    THEN {DetectionResultItem(sp.word, sp.category, RuleConfidence(rule_name),
                              << <<sp.start, sp.start + Len(sp.word)>> >>) :
             sp \in ArbSpans}
    ELSE {DetectionResultItem(w, c, RuleConfidence(rule_name), <<>>) :
             w \in ArbWords, c \in Categories}

ArbResultLists(rule_name, with_positions, n) ==
    UNION {[1..k -> ArbItems(rule_name, with_positions)] : k \in 0..n}

ArbConfigs ==
    { DefaultArbitrationConfig(NoWeights),
      DefaultArbitrationConfig([c \in Categories |->
                                   IF c = "c1" THEN Tenth(5) ELSE One]),
      ArbitrationConfig([c \in {"c1"} |-> 0 - One],
                        [r \in {"ExactMatchRule"} |-> 2 * One],
                        Tenth(6), 0, TRUE),
      ArbitrationConfig(NoWeights, DefaultEngineWeights, Tenth(1), Tenth(5), FALSE),
      ArbitrationConfig(NoWeights,
                        [r \in {"ExactMatchRule", "JiebaRule"} |->
                            IF r = "ExactMatchRule" THEN Tenth(7) ELSE Tenth(9)],
                        Tenth(1), Tenth(5), TRUE),
      DefaultArbitrationConfig([c \in Categories |->
                                   IF c = "c1" THEN 2 * One ELSE One]) }

ServiceAbsent ==
    /\ wordlists = RegistryEmpty
    /\ rules = <<>>
    /\ category_weights = NoWeights
    /\ request_count = 0
    /\ hashseed = 0
    /\ response = NoResponse

ArbInit ==
    /\ \E order \in ArbRuleOrders, with_positions \in BOOLEAN, config \in ArbConfigs :
         \E l1 \in ArbResultLists(order[1], with_positions, MaxArbItems) :
            \E l2 \in ArbResultLists(order[2], with_positions, MaxArbItems - Len(l1)) :
               arbIn = [config |-> config,
                        results_by_rule |->
                            << [rule |-> order[1], results |-> l1],
                               [rule |-> order[2], results |-> l2] >>]
    /\ arbOut = <<>>
    /\ ServiceAbsent /\ ThreadsIdle /\ LegacyIdle /\ EngineIdle /\ PrepIdle

\* one call of arbitrate and, when it returned, of
\* calculate_overall_risk_level on its results, as detect calls them, in a
\* process whose hash salt is seed
Arbitrate(seed) ==
    /\ Len(arbOut) < 2
    /\ arbOut = <<>> => seed = 0
    /\ LET out == arbitrate(arbIn.results_by_rule, arbIn.config, seed)
       IN  arbOut' = Append(arbOut,
               [raised |-> out.raised, results |-> out.results,
                summary |-> out.summary,
                risk_level |->
                    IF out.raised THEN "none"
                    ELSE calculate_overall_risk_level(out.results, arbIn.config)])
    /\ UNCHANGED <<arbIn, serviceVars, threadVars, legacyVars, engineVars, textVars>>

ArbNext == \E seed \in HashSeeds : Arbitrate(seed)

SpecArb == ArbInit /\ [][ArbNext]_vars

(***************************************************************************)
(* The service called from two threads: one in detect, one in a reload.    *)
(* The class takes no lock and swaps nothing: reload_rules and             *)
(* reload_config empty self.rules in place and refill it, load_wordlist    *)
(* empties a rule's category structure in place and refills it category by *)
(* category.  A step below is one statement of those methods.  (Under the  *)
(* application's event loop every handler runs to its end without a        *)
(* suspension point; that deployment is Spec.)                             *)
(*                                                                         *)
(* det.held is the dict _get_rules_for_mode returned: references to the    *)
(* rule objects of the map at that moment.  While those objects are still  *)
(* the ones in the map (det.live) the thread sees what load_wordlist does  *)
(* to them; rules.clear() followed by new rule objects detaches them.      *)
(***************************************************************************)
ReloadKinds == {"reload_rules", "reload_wordlists", "reload_config"}

ThreadsInit == ServiceInit /\ ThreadsIdle /\ ArbIdle /\ LegacyIdle /\ EngineIdle /\ PrepIdle

\* detect, line 210: rules_to_use = self._get_rules_for_mode(RULE)
DetSelect ==
    /\ det.pc = "idle"
    /\ det' = [pc |-> "running", held |-> rules, live |-> TRUE,
               next |-> 1, seen |-> <<>>]
    /\ UNCHANGED <<serviceVars, rel, arbVars, engineVars, legacyVars, textVars>>

\* one turn of the loop of _execute_multi_rule_detection: rule.detect reads
\* the rule's category structure as it is now
DetRunRule ==
    /\ det.pc = "running"
    /\ det.next <= Len(det.held)
    /\ LET rule == IF det.live THEN rules[det.next] ELSE det.held[det.next]
       IN  det' = [det EXCEPT !.next = @ + 1,
                              !.seen = Append(@, [rule |-> rule.name,
                                                  loaded |-> rule.loaded])]
    /\ UNCHANGED <<serviceVars, rel, arbVars, engineVars, legacyVars, textVars>>

DetFinish ==
    /\ det.pc = "running"
    /\ det.next > Len(det.held)
    /\ det' = [det EXCEPT !.pc = "done"]
    /\ UNCHANGED <<serviceVars, rel, arbVars, engineVars, legacyVars, textVars>>

\* a reload method is entered; the registry is the file as its reload_config
\* call will read it
RelStart(kind, registry) ==
    /\ rel.pc = "idle"
    /\ rel' = [pc |-> IF kind = "reload_wordlists" THEN "wipe" ELSE "clear",
               kind |-> kind, before |-> wordlists, after |-> registry,
               rule |-> 1, category |-> 0]
    /\ wordlists' = registry
    /\ UNCHANGED <<rules, category_weights, request_count, hashseed, response>>
    /\ UNCHANGED <<det, arbVars, engineVars, legacyVars, textVars>>

\* self.rules.clear(): the rule objects a detect holds leave the map as they are
RelClear ==
    /\ rel.pc = "clear"
    /\ rules' = <<>>
    /\ rel' = [rel EXCEPT !.pc = "create"]
    /\ det' = IF det.pc = "running" /\ det.live
              THEN [det EXCEPT !.held = rules, !.live = FALSE]
              ELSE det
    /\ UNCHANGED <<wordlists, category_weights, request_count, hashseed, response>>
    /\ UNCHANGED <<arbVars, engineVars, legacyVars, textVars>>

\* _create_default_rules: new rule objects, nothing loaded
RelCreate ==
    /\ rel.pc = "create"
    /\ rules' = create_default_rules
    /\ rel' = [rel EXCEPT !.pc = "wipe", !.rule = 1]
    /\ UNCHANGED <<wordlists, category_weights, request_count, hashseed, response>>
    /\ UNCHANGED <<det, arbVars, engineVars, legacyVars, textVars>>

\* load_wordlist, first statement: self.automatons.clear() / word_sets.clear()
RelWipe ==
    /\ rel.pc = "wipe"
    /\ rel.rule <= Len(rules)
    /\ rules' = [rules EXCEPT ![rel.rule].loaded = <<>>]
    /\ rel' = [rel EXCEPT !.pc = "fill", !.category = 0]
    /\ UNCHANGED <<wordlists, category_weights, request_count, hashseed, response>>
    /\ UNCHANGED <<det, arbVars, engineVars, legacyVars, textVars>>

\* load_wordlist, one turn of its loop: the next category's structure is
\* built and stored; after the last one the next rule is loaded
RelFill ==
    /\ rel.pc = "fill"
    /\ LET full == load_wordlist(rules[rel.rule],
                                 words_by_category(rel.after)).loaded
       IN  IF rel.category < Len(full)
           THEN /\ rules' = [rules EXCEPT ![rel.rule].loaded =
                                 Append(@, full[rel.category + 1])]
                /\ rel' = [rel EXCEPT !.category = @ + 1]
           ELSE /\ rules' = rules
                /\ rel' = IF rel.rule < Len(rules)
                          THEN [rel EXCEPT !.pc = "wipe", !.rule = @ + 1]
                          ELSE [rel EXCEPT !.pc = "done"]
    /\ UNCHANGED <<wordlists, category_weights, request_count, hashseed, response>>
    /\ UNCHANGED <<det, arbVars, engineVars, legacyVars, textVars>>

ThreadsNext ==
    \/ DetSelect
    \/ DetRunRule
    \/ DetFinish
    \/ \E kind \in ReloadKinds, registry \in Registries : RelStart(kind, registry)
    \/ RelClear
    \/ RelCreate
    \/ RelWipe
    \/ RelFill

SpecThreads == ThreadsInit /\ [][ThreadsNext]_vars

(***************************************************************************)
(* A rule object used on its own, as rule_engine.py allows: constructed,   *)
(* then load_wordlist and detect called on it in any order.                *)
(***************************************************************************)
\* a word file with a commented-out word, "#a", and the word "b"
RegistryComment ==
    << WordlistConfig("c1", TRUE, 100, << <<"#", "a">>, <<"b">> >>) >>

\* a word file whose word is written with a blank inside, "a b"
RegistryNoise ==
    << WordlistConfig("c1", TRUE, 100, << <<"a", " ", "b">> >>) >>

\* a word file with two words that overlap in "aba"
RegistryOverlap ==
    << WordlistConfig("c1", TRUE, 100, << <<"a", "b">>, <<"b", "a">> >>) >>

EngineRegistries ==
    Registries \cup {RegistryComment, RegistryNoise, RegistryOverlap}

\* the word lists the segmenter can give a rule for a text; the exact and
\* the regex rule do not segment
EngineWordLists(rule, text, dictionary) ==
    IF rule.rule_type = "jieba"
    THEN jieba_word_lists(rule.config, jieba_preprocess_text(text, rule.config),
                          dictionary)
    ELSE {<<>>}

\* the texts a rule is asked about
EngineTexts == TextsOver(RequestAlphabet \cup {"#"}, MaxTextLen)

RuleVariants ==
    { Rule("exact", "exact", ExactRuleConfig, <<>>),
      Rule("jieba", "jieba", JiebaRuleConfig, <<>>),
      Rule("jieba_full", "jieba", JiebaFullConfig, <<>>),
      Rule("regex", "regex", RegexRuleConfig, <<>>) }

\* __init__ of a rule variant: no automaton, word set or pattern yet
EngineInit ==
    /\ \E r \in RuleVariants :
          engine = [rule |-> r, ever_loaded |-> FALSE, loads |-> 0, dictionary |-> {}]
    /\ engineOut = NoEngineOutput
    /\ ServiceAbsent /\ ThreadsIdle /\ ArbIdle /\ LegacyIdle /\ PrepIdle

\* rule.load_wordlist(words_by_category) with the words of a registry.  The
\* segmenter rule also hands each word to jieba.add_word, which adds it to
\* the dictionary of the process; no load takes a word out of it.
EngineLoad(registry) ==
    /\ ~engineOut.called
    /\ engine.loads < MaxLoads
    /\ LET rule == load_wordlist(engine.rule, words_by_category(registry))
       IN  engine' = [rule |-> rule, ever_loaded |-> TRUE,
                      loads |-> engine.loads + 1,
                      dictionary |->
                          IF rule.rule_type = "jieba"
                          THEN engine.dictionary \cup jieba_added(rule.loaded)
                          ELSE engine.dictionary]
    /\ UNCHANGED <<engineOut, serviceVars, threadVars, arbVars, legacyVars, textVars>>

\* rule.detect(text, config); the run follows one detect call of the rule
EngineDetect(text, config) ==
    /\ \E word_list \in EngineWordLists(engine.rule, text, engine.dictionary) :
          engineOut' = [called |-> TRUE, text |-> text, config |-> config,
                        word_list |-> word_list,
                        got |-> rule_detect(engine.rule, text, config,
                                            word_list, {})]
    /\ UNCHANGED <<engine, serviceVars, threadVars, arbVars, legacyVars, textVars>>

EngineAsk ==
    /\ ~engineOut.called
    /\ \E text \in EngineTexts, config \in DetectionConfigs :
          EngineDetect(text, config)

EngineNext ==
    \/ \E registry \in EngineRegistries : EngineLoad(registry)
    \/ EngineAsk

SpecRule == EngineInit /\ [][EngineNext]_vars

\* the characters split_text looks for: '\u3002\uff01\uff1f\n'
SentenceEnds == {"U+3002", "U+FF01", "U+FF1F", "\n"}

\* the while loop of split_text from offset start on; offsets are 0-based
RECURSIVE split_loop(_, _, _, _)
split_loop(text, max_length, start, chunks) ==
    IF start >= Len(text) THEN chunks
    ELSE LET window == start + max_length
             found  == IF window < Len(text)
                       THEN {i \in (start + (max_length \div 2) + 1)..window :
                                 text[i + 1] \in SentenceEnds}
                       ELSE {}
             end    == IF found = {} THEN window
                       ELSE (CHOOSE i \in found : \A j \in found : j <= i) + 1
             last   == IF end < Len(text) THEN end ELSE Len(text)
         IN  split_loop(text, max_length, end,
                        Append(chunks, SubSeq(text, start + 1, last)))

\* TextPreprocessor.split_text
split_text(text, max_length) ==
    IF Len(text) <= max_length THEN <<text>>
    ELSE split_loop(text, max_length, 0, <<>>)

\* texts with sentence ends in them
SplitTexts == TextsOver({"a", "U+3002"}, MaxSplitLen)

(***************************************************************************)
(* A TextPreprocessor used on its own: normalize is called on a text and   *)
(* then on its own result, clean_for_matching on the text.                 *)
(***************************************************************************)
\* texts of letters, whitespace and Han characters
ScriptTexts == TextsOver(Alphabet \ {"b"}, MaxScriptLen)

\* texts of letters, blanks, every noise character and the apostrophe
NoiseTexts == TextsOver({"a", "B", " ", "'"} \cup NoiseChars, MaxNoiseLen)

PrepTexts == ScriptTexts \cup NoiseTexts

PrepInit ==
    /\ \E text \in PrepTexts \cup SplitTexts : prep = Preprocessor(text)
    /\ ServiceAbsent /\ ThreadsIdle /\ ArbIdle /\ LegacyIdle /\ EngineIdle

\* processor.normalize(text), then processor.normalize(result)
Normalize ==
    /\ Len(prep.normalized) < 2
    /\ prep' = [prep EXCEPT !.normalized =
                    Append(@, normalize(IF @ = <<>> THEN prep.text ELSE @[Len(@)]))]
    /\ UNCHANGED <<serviceVars, threadVars, arbVars, legacyVars, engineVars>>

\* processor.clean_for_matching(text)
CleanForMatching ==
    /\ prep.cleaned = <<>>
    /\ prep' = [prep EXCEPT !.cleaned = <<clean_for_matching(prep.text)>>]
    /\ UNCHANGED <<serviceVars, threadVars, arbVars, legacyVars, engineVars>>

\* split_text(text, max_length) is called on the text
SplitText(max_length) ==
    /\ prep.split = <<>>
    /\ prep' = [prep EXCEPT !.split = <<[max_length |-> max_length,
                                         chunks |-> split_text(prep.text, max_length)]>>]
    /\ UNCHANGED <<serviceVars, threadVars, arbVars, legacyVars, engineVars>>

PrepNext ==
    \/ Normalize
    \/ CleanForMatching
    \/ \E max_length \in 1..MaxChunkLen : SplitText(max_length)

SpecText == PrepInit /\ [][PrepNext]_vars

\* a reload that ran to its end left the map the handler of Spec leaves
ReloadEndsLoaded ==
    rel.pc = "done" => rules = load_detection_rules(rel.after)

\* the category structure of a rule fully loaded from a registry
FullyLoaded(rule_name, registry) ==
    LET all == load_detection_rules(registry)
    IN  all[CHOOSE k \in 1..Len(all) : all[k].name = rule_name].loaded

\* C4: a detect that runs while a reload is in progress holds the whole rule
\* map, and the structure it reads of every rule is the one fully loaded
\* from the registry before the reload or from the registry after it.
C4_ReloadAtomic ==
    LET before == IF rel.pc = "idle" THEN wordlists ELSE rel.before
        after  == IF rel.pc = "idle" THEN wordlists ELSE rel.after
    IN  det.pc # "idle" =>
            /\ Len(det.held) = Len(create_default_rules)
            /\ \A i \in 1..Len(det.seen) :
                  \/ det.seen[i].loaded = FullyLoaded(det.seen[i].rule, before)
                  \/ det.seen[i].loaded = FullyLoaded(det.seen[i].rule, after)

(***************************************************************************)
(* Properties of the two services, checked under Spec.                     *)
(***************************************************************************)
Answered(r) == r.outcome \notin {"none", "ValidationError"}

\* spans a and b overlap: a.start < b.end and b.start < a.end
Overlap(a, b) == a[1] < b[2] /\ b[1] < a[2]

NoOverlap(results) ==
    \A i, j \in 1..Len(results) :
        i # j => \A p \in 1..Len(results[i].positions) :
                     \A q \in 1..Len(results[j].positions) :
                         ~Overlap(results[i].positions[p], results[j].positions[q])

\* C1: in every response either service returns, no two result spans
\* overlap.
C1_NoOverlap ==
    /\ response.outcome = "ok" => NoOverlap(response.results)
    /\ legacyResponse.outcome = "ok" => NoOverlap(legacyResponse.results)

\* C3: when a rule's detect raises during a rule-mode request, detect still
\* returns a response; the arbitrator is given an entry for every rule, in
\* the order of the rule map: the empty list for a rule that raised, and for
\* every other rule exactly the list its detect returned.  (With a negative
\* category weight the arbitrator itself raises on a result, which ends the
\* request whether or not a rule failed.)
C3_FailureIsolation ==
    ( /\ Answered(response)
      /\ ~ends_early(rules, response.text, response.config)
      /\ \A c \in DOMAIN category_weights : category_weights[c] >= 0 ) =>
        /\ response.outcome = "ok"
        /\ Len(response.results_by_rule) = Len(rules)
        /\ \E word_list \in Segmentations(Lower(response.text)) :
             \A k \in 1..Len(rules) :
                /\ response.results_by_rule[k].rule = rules[k].name
                /\ response.results_by_rule[k].results =
                     IF rules[k].name \in response.failed THEN <<>>
                     ELSE rule_detect(rules[k], response.text, response.config,
                                      word_list, {}).results

\* the first rule of the map raised and the response carries the spans of
\* the second
C3_FirstRuleFailed ==
    /\ response.outcome = "ok"
    /\ response.failed = {"default_exact"}
    /\ response.results_by_rule[1].results = <<>>
    /\ response.results # <<>>

\* C7: for every detection mode a request can carry, detect on a text of
\* accepted length runs the rules of that mode and returns a response.
C7_EveryModeServed ==
    (Answered(response) /\ ~text_too_long(response.text)) =>
        /\ response.outcome = "ok"
        /\ response.invoked = {rules[k].name : k \in 1..Len(rules)}

\* C8: a text that is empty or longer than max_text_length is rejected by
\* either service: no response is returned, no rule is invoked and no result
\* is produced; a response is returned only for a text of 1..max_text_length
\* characters.
C8_Rejected(r) ==
    (r.outcome # "none" /\ (Len(r.text) < 1 \/ Len(r.text) > max_text_length)) =>
        /\ r.outcome \in {"ValidationError", "DetectionError"}
        /\ r.invoked = {}
        /\ r.results_by_rule = <<>>
        /\ r.results = <<>>

SpaceSeparatedWord(text, w) ==
    \E at \in 0..(Len(text) - Len(w)) :
        /\ OccursAt(text, w, at)
        /\ at > 0 => IsSpace(text[at])
        /\ at + Len(w) < Len(text) => IsSpace(text[at + Len(w) + 1])

\* C9: the registry holds one enabled category of weight 100 with the word
\* "a"; a rule-mode detection in which only the exact rule contributes (the
\* segmenter rule failed), on a text that holds "a" as a space-separated
\* word, returns one result, matched_word "a", confidence 1.0, risk CRITICAL.
C9_ExactDetection ==
    ( /\ response.outcome = "ok"
      /\ wordlists = RegistryOne
      /\ rules = load_detection_rules(RegistryOne)
      /\ category_weights = get_category_weights(RegistryOne)
      /\ response.failed = {"default_jieba"}
      /\ SpaceSeparatedWord(response.text, <<"a">>) ) =>
        /\ Len(response.results) = 1
        /\ response.results[1].matched_word = <<"a">>
        /\ response.results[1].confidence = One
        /\ response.risk_level = "critical"

\* C10: a returned response is sensitive exactly when it has results; when
\* the rules emitted no span it is not sensitive, has no results, score 0,
\* total_matches 0 and risk level LOW.
C10_Consistent(r) ==
    r.outcome = "ok" =>
        /\ r.is_sensitive <=> r.results # <<>>
        /\ (\A k \in 1..Len(r.results_by_rule) :
                r.results_by_rule[k].results = <<>>) =>
             /\ ~r.is_sensitive
             /\ r.results = <<>>
             /\ r.overall_score = 0
             /\ r.summary.total_matches = 0
             /\ r.risk_level = "low"

C10_NoMatches == C10_Consistent(response) /\ C10_Consistent(legacyResponse)

\* a text with letters, answered by a service whose registry has only a
\* disabled entry
C10_DisabledRegistry ==
    /\ response.outcome = "ok"
    /\ wordlists = RegistryDisabled
    /\ rules = load_detection_rules(RegistryDisabled)
    /\ response.text = <<"a", "b">>
    /\ ~response.is_sensitive
    /\ response.risk_level = "low"

\* C14: a response detect returns carries exactly what the arbitrator
\* returned for the rules' results: when arbitrate raises for them, detect
\* ends with DetectionError and no response.
C14_FailClosed ==
    Answered(response) =>
        LET arb == arbitrate(response.results_by_rule,
                             arbitrator_config(category_weights), hashseed)
        IN  /\ response.outcome \in {"ok", "DetectionError"}
            /\ response.outcome = "ok" =>
                  /\ ~arb.raised
                  /\ response.results = arb.results
                  /\ response.summary = arb.summary
            /\ response.outcome = "DetectionError" =>
                  /\ response.results = <<>>
                  /\ ~response.is_sensitive

\* a rule-mode request of accepted length whose text holds a loaded word of
\* a category of negative weight ended with DetectionError: the arbitrator
\* raised on the result the exact rule returned
C14_ArbitratorRaised ==
    /\ response.outcome = "DetectionError"
    /\ response.config.detection_mode = "rule"
    /\ ~text_too_long(response.text)
    /\ category_weights = get_category_weights(RegistryNegative)
    /\ rules = load_detection_rules(RegistryNegative)
    /\ exact_detect(rules[1].loaded, rules[1].config,
                    response.text, response.config).results # <<>>
    /\ arbitrate_raises(
           << [rule |-> "default_exact",
               results |-> exact_detect(rules[1].loaded, rules[1].config,
                                        response.text, response.config).results] >>,
           arbitrator_config(category_weights))

\* C17: a result item of a returned response carries positions only if the
\* request set return_positions; with return_positions false every result
\* item of the response has an empty positions list.
C17_Positions(r) ==
    (r.outcome = "ok" /\ ~r.config.return_positions) =>
        \A i \in 1..Len(r.results) : r.results[i].positions = <<>>

C17_PositionsOnRequest == C17_Positions(response) /\ C17_Positions(legacyResponse)

\* what the claim compares of a result
MatchOf(item) == <<item.matched_word, item.category, item.confidence>>

\* two result lists hold the same matches the same number of times
SameMatches(xs, ys) ==
    \A m \in {MatchOf(xs[i]) : i \in 1..Len(xs)} \cup {MatchOf(ys[i]) : i \in 1..Len(ys)} :
        Cardinality({i \in 1..Len(xs) : MatchOf(xs[i]) = m}) =
        Cardinality({i \in 1..Len(ys) : MatchOf(ys[i]) = m})

\* C28: for the same text, rules and configuration, with the same
\* segmentation and the same failing rules, the response of detect holds the
\* same multiset of (matched_word, category, confidence) whether the request
\* sets return_positions or not.
C28_MatchSetIndependent ==
    response.outcome = "ok" =>
        \A faults \in SUBSET RuleNames :
        \A word_list \in Segmentations(Lower(response.text)) :
            detect(rules, category_weights, hashseed, response.text,
                   response.config, word_list, faults) = response =>
                LET flipped == [response.config EXCEPT !.return_positions = ~@]
                    other   == detect(rules, category_weights, hashseed,
                                      response.text, flipped, word_list, faults)
                IN  /\ other.outcome = "ok"
                    /\ SameMatches(other.results, response.results)

\* C29: a detect answered after a reload applies the category weights of
\* the configuration the reload read: its results, their order and its risk
\* level are those detect gives with the weights of the registry as last
\* read.
C29_ReloadRefreshesWeights ==
    response.outcome = "ok" =>
        \A faults \in SUBSET RuleNames :
        \A word_list \in Segmentations(Lower(response.text)) :
            detect(rules, category_weights, hashseed, response.text,
                   response.config, word_list, faults) = response =>
                LET fresh == detect(rules, get_category_weights(wordlists),
                                    hashseed, response.text, response.config,
                                    word_list, faults)
                IN  /\ fresh.results = response.results
                    /\ fresh.risk_level = response.risk_level

\* a step in which a caller's request entered the detect of a service: the
\* caller got an answer or an exception other than the request model's
DetectStarted(before, after) ==
    before = NoResponse /\ after # NoResponse /\ after.outcome # "ValidationError"

StartOf(item) == IF item.positions = <<>> THEN 0 ELSE item.positions[1][1]

SamePair(x, y) ==
    /\ x.matched_word = y.matched_word
    /\ x.category = y.category
    /\ StartOf(x) = StartOf(y)

\* what arbitrate makes of one rule's report of one result, alone
Alone(rule_name, item) ==
    arbitrate(<< [rule |-> rule_name, results |-> <<item>>] >>, arbIn.config, 0)

\* C2: with merging enabled, when two different rules report the same word
\* and category at the same start offset, the result of that pair in the
\* output of arbitrate has at least the confidence arbitrate gives the pair
\* from either of the two rules alone, whichever rule's hit survived.
C2_MonotonicCorroboration ==
    \A n \in 1..Len(arbOut) :
        LET rbr == arbIn.results_by_rule
        IN  arbIn.config.enable_max_matching =>
            \A k1, k2 \in 1..Len(rbr) :
              \A i1 \in 1..Len(rbr[k1].results), i2 \in 1..Len(rbr[k2].results) :
                (k1 # k2 /\ SamePair(rbr[k1].results[i1], rbr[k2].results[i2])) =>
                    LET alone == Alone(rbr[k1].rule, rbr[k1].results[i1])
                    IN  \A r \in 1..Len(arbOut[n].results) :
                          ( /\ ~alone.raised
                            /\ alone.results # <<>>
                            /\ SamePair(arbOut[n].results[r], rbr[k1].results[i1]) ) =>
                              arbOut[n].results[r].confidence
                                  >= alone.results[1].confidence

\* C5: every result arbitrate returns has a confidence in [0, 1], whatever
\* the engine weights, category weights and boost factor are.
C5_ConfidenceBounds ==
    \A n \in 1..Len(arbOut) :
        \A r \in 1..Len(arbOut[n].results) :
            /\ arbOut[n].results[r].confidence >= 0
            /\ arbOut[n].results[r].confidence <= One

\* arbitrate returned a corroborated result clamped at 1.0 under an engine
\* weight of 2.0 and a boost factor of 0.6
C5_ClampedResult ==
    /\ Len(arbOut) >= 1
    /\ ~arbOut[1].raised
    /\ arbIn.config.confidence_boost_factor = Tenth(6)
    /\ \E r \in 1..Len(arbOut[1].results) :
          /\ arbOut[1].results[r].confidence = One
          /\ arbOut[1].results[r].category = "c2"
          /\ match_count(Hit(arbOut[1].results[r].matched_word,
                             StartOf(arbOut[1].results[r]), 1,
                             arbOut[1].results[r].category, "", 0),
                         arbIn.results_by_rule) > 1

\* C6: two calls of arbitrate on the same per-rule input under the same
\* config return the same ordered results and the same summary.
C6_Deterministic ==
    Len(arbOut) = 2 => arbOut[1] = arbOut[2]

\* the stages arbitrate went through on the input of this run
ArbRun == ArbStages(arbIn.results_by_rule, arbIn.config)

\* the indices of sorted that a left-to-right scan accepts: i is accepted iff
\* its start is not before the end of the last accepted hit before it (-1
\* when there is none)
AcceptedBy(sorted) ==
    CHOOSE Acc \in SUBSET (1..Len(sorted)) :
        \A i \in 1..Len(sorted) :
            LET prior == {j \in Acc : j < i}
                last_accepted_end ==
                    IF prior = {} THEN -1
                    ELSE sorted[CHOOSE j \in prior : \A k \in prior : k <= j].end
            IN  i \in Acc <=> sorted[i].start >= last_accepted_end

\* C11: with merging enabled, the merged hits are those of all hits, sorted
\* by (start ascending, end descending), that the scan accepts, in that
\* order; a hit that shares its start with a longer hit is never kept, and a
\* kept hit is a longest of its start, whatever the confidences and sources.
C11_GreedyLongestMatch ==
    (Len(arbOut) >= 1 /\ arbIn.config.enable_max_matching) =>
        LET all    == ArbRun.all_hits
            merged == ArbRun.merged
            sorted == StableSortByKey(all,
                          [i \in 1..Len(all) |-> <<all[i].start, 0 - all[i].end>>])
            Acc    == AcceptedBy(sorted)
        IN  /\ Len(merged) = Cardinality(Acc)
            /\ \A k \in 1..Len(merged) :
                  merged[k] = sorted[CHOOSE i \in Acc :
                                  Cardinality({j \in Acc : j <= i}) = k]
            /\ \A i, j \in 1..Len(all) :
                  (all[i].start = all[j].start /\ all[i].end < all[j].end) =>
                      /\ all[i] \notin Range(merged)
                      /\ \A k \in 1..Len(merged) :
                            merged[k].start = all[i].start =>
                                merged[k].end >= all[j].end

\* the exact rule reported "a" at [0,1) with confidence 1.0, the segmenter
\* rule "ab" at [0,2) with 0.9, and arbitrate returned "ab" alone
C11_LongerKept ==
    /\ Len(arbOut) >= 1
    /\ ~arbOut[1].raised
    /\ arbIn.config = DefaultArbitrationConfig(NoWeights)
    /\ arbIn.results_by_rule =
          << [rule |-> "ExactMatchRule",
              results |-> << DetectionResultItem(<<"a">>, "c1", One,
                                                 << <<0, 1>> >>) >>],
             [rule |-> "JiebaRule",
              results |-> << DetectionResultItem(<<"a", "b">>, "c1", Tenth(9),
                                                 << <<0, 2>> >>) >>] >>
    /\ Len(arbOut[1].results) = 1
    /\ arbOut[1].results[1].matched_word = <<"a", "b">>
    /\ arbOut[1].results[1].positions = << <<0, 2>> >>

\* the number of rules that have, anywhere in their list, a result with the
\* hit's word and category whose start offset is within 2 of the hit's start
CorroboratingRules(hit, results_by_rule) ==
    Cardinality({k \in 1..Len(results_by_rule) :
        \E i \in 1..Len(results_by_rule[k].results) :
            LET r == results_by_rule[k].results[i]
            IN  /\ r.matched_word = hit.word
                /\ r.category = hit.category
                /\ Abs(StartOf(r) - hit.start) <= 2})

\* C12: with merging enabled, every hit that survived merging leaves the corroboration stage with
\* its confidence raised by confidence_boost_factor x (k - 1), clamped at
\* 1.0, k being the number of rules that reported its word and category
\* within 2 of its start anywhere in their lists.
C12_CorroborationCount ==
    (Len(arbOut) >= 1 /\ arbIn.config.enable_max_matching) =>
        \A i \in 1..Len(ArbRun.merged) :
            LET hit == ArbRun.merged[i]
                k   == CorroboratingRules(hit, arbIn.results_by_rule)
            IN  ArbRun.enhanced[i].confidence =
                    IF k > 1
                    THEN Min(One, hit.confidence
                                    + arbIn.config.confidence_boost_factor * (k - 1))
                    ELSE hit.confidence

\* the level of score = max confidence + 0.1 for each result of a category
\* of weight >= 0.9 + 0.2 for 5 or more results, else + 0.1 for 3 or more,
\* in decimal arithmetic
DerivedRiskLevel(results, config) ==
    IF results = <<>> THEN "low"
    ELSE LET max_confidence ==
                 CHOOSE m \in {results[i].confidence : i \in 1..Len(results)} :
                     \A i \in 1..Len(results) : results[i].confidence <= m
             high == Cardinality({i \in 1..Len(results) :
                        DictGet(config.category_weights, results[i].category, One)
                            >= Tenth(9)})
             bonus == IF Len(results) >= 5 THEN Tenth(2)
                      ELSE IF Len(results) >= 3 THEN Tenth(1) ELSE 0
             weighted_score == max_confidence + high * Tenth(1) + bonus
         IN  IF weighted_score >= Tenth(9) THEN "critical"
             ELSE IF weighted_score >= Tenth(7) THEN "high"
             ELSE IF weighted_score >= Tenth(5) THEN "medium"
             ELSE "low"


\* C13: the risk level calculate_overall_risk_level returns for the results
\* of arbitrate is LOW for no results and otherwise the level of the score
\* derived as above.
C13_RiskLevelDerivation ==
    \A n \in 1..Len(arbOut) :
        ~arbOut[n].raised =>
            arbOut[n].risk_level = DerivedRiskLevel(arbOut[n].results, arbIn.config)

\* the result that hit h of the enhanced hits becomes when it is kept
KeptAs(h, result, config) ==
    /\ result.matched_word = h.word
    /\ result.category = h.category
    /\ result.positions = h.positions
    /\ result.confidence =
          Min(One, Mul(h.confidence, DictGet(config.category_weights, h.category, One)))

\* C20: the stages run in the stated order: a hit that survived merging is
\* in the final results iff its confidence after engine weighting and
\* corroboration boost is >= confidence_threshold, whatever its category
\* weight; the final results are exactly those hits, each with its
\* confidence multiplied by the category weight (at most 1.0).
C20_FilterBeforeWeighting ==
    \A k \in 1..Len(arbOut) :
        ~arbOut[k].raised =>
            LET enhanced == ArbRun.enhanced
                passed   == {i \in 1..Len(enhanced) :
                               enhanced[i].confidence >= arbIn.config.confidence_threshold}
            IN  /\ Len(arbOut[k].results) = Cardinality(passed)
                /\ \A i \in passed :
                      \E j \in 1..Len(arbOut[k].results) :
                          KeptAs(enhanced[i], arbOut[k].results[j], arbIn.config)

\* arbitrate returned a result whose confidence, 0.81 times the category
\* weight 0.5, is below the threshold 0.5 that its hit passed, next to
\* nothing else
C20_KeptBelowThreshold ==
    /\ Len(arbOut) >= 1
    /\ ~arbOut[1].raised
    /\ arbIn.config.confidence_threshold = Tenth(5)
    /\ DictGet(arbIn.config.category_weights, "c1", One) = Tenth(5)
    /\ Len(ArbRun.enhanced) = 1
    /\ ArbRun.enhanced[1].confidence = 8100
    /\ Len(arbOut[1].results) = 1
    /\ arbOut[1].results[1].category = "c1"
    /\ arbOut[1].results[1].confidence = 4050

\* the sort keys of a result: its confidence and its category's weight
SortKeys(result, config) ==
    <<result.confidence, DictGet(config.category_weights, result.category, One)>>

\* C24: in every list arbitrate returns, consecutive results have
\* descending confidence and, at equal confidence, descending category
\* weight; results equal on both keys keep the order they had after the
\* merge stage.
C24_ResultOrdering ==
    \A k \in 1..Len(arbOut) :
        ~arbOut[k].raised =>
            LET results == arbOut[k].results
                staged  == convert_to_detection_results(ArbRun.weighted)
                keys(r) == SortKeys(r, arbIn.config)
            IN  /\ \A i \in 1..(Len(results) - 1) :
                      \/ keys(results[i])[1] > keys(results[i + 1])[1]
                      \/ /\ keys(results[i])[1] = keys(results[i + 1])[1]
                         /\ keys(results[i])[2] >= keys(results[i + 1])[2]
                /\ \A i \in 1..Len(results) :
                      SelectSeq(results, LAMBDA r : keys(r) = keys(results[i]))
                        = SelectSeq(staged, LAMBDA r : keys(r) = keys(results[i]))

\* arbitrate returned three results of confidence 1.0: the one of the
\* category of weight 2.0, which came last from the merge stage, first,
\* and the two of the category of weight 1.0 in their merge order
C24_TieBrokenByWeight ==
    /\ Len(arbOut) >= 1
    /\ ~arbOut[1].raised
    /\ DictGet(arbIn.config.category_weights, "c1", One) = 2 * One
    /\ Len(ArbRun.weighted) = 3
    /\ ArbRun.weighted[3].category = "c1"
    /\ ArbRun.weighted[1].category = "c2"
    /\ ArbRun.weighted[1].word # ArbRun.weighted[2].word
    /\ Len(arbOut[1].results) = 3
    /\ \A i \in 1..3 : arbOut[1].results[i].confidence = One
    /\ arbOut[1].results[1].category = "c1"
    /\ arbOut[1].results[2].matched_word = ArbRun.weighted[1].word
    /\ arbOut[1].results[3].matched_word = ArbRun.weighted[2].word

\* C25: for every output of arbitrate, summary.total_matches is the number
\* of final results, summary.categories_found lists each category of the
\* final results once and nothing else, and summary.highest_risk_category
\* is the category of the first result, None when there are no results.
C25_SummaryConsistency ==
    \A k \in 1..Len(arbOut) :
        ~arbOut[k].raised =>
            LET results == arbOut[k].results
                summary == arbOut[k].summary
                found   == summary.categories_found
            IN  /\ summary.total_matches = Len(results)
                /\ {found[i] : i \in 1..Len(found)}
                     = {results[i].category : i \in 1..Len(results)}
                /\ \A i, j \in 1..Len(found) : found[i] = found[j] => i = j
                /\ summary.highest_risk_category =
                     IF results = <<>> THEN NoCategory ELSE results[1].category

\* arbitrate returned three results of two categories, two of them of the
\* category of the first result
C25_TwoCategoriesFound ==
    /\ Len(arbOut) >= 1
    /\ ~arbOut[1].raised
    /\ Len(arbOut[1].results) = 3
    /\ arbOut[1].results[1].category = "c2"
    /\ arbOut[1].results[2].category = "c1"
    /\ arbOut[1].results[3].category = "c2"
    /\ arbOut[1].summary.total_matches = 3
    /\ Len(arbOut[1].summary.categories_found) = 2
    /\ arbOut[1].summary.highest_risk_category = "c2"

\* two hits share at least one offset
HitsOverlap(g, h) == g.start < h.end /\ h.start < g.end

\* C30: for hits with start < end, every hit the greedy merge discards
\* overlaps some hit it accepts: no hit disjoint from all accepted hits is
\* dropped by the merge stage.
C30_OnlyOverlappingDiscarded ==
    (Len(arbOut) >= 1 /\ arbIn.config.enable_max_matching) =>
        LET all    == ArbRun.all_hits
            merged == ArbRun.merged
        IN  (\A i \in 1..Len(all) : all[i].start < all[i].end) =>
                \A i \in 1..Len(all) :
                    all[i] \notin Range(merged) =>
                        \E k \in 1..Len(merged) : HitsOverlap(all[i], merged[k])

\* of three hits the merge accepted [0,2) and the adjacent [3,4) and
\* discarded [1,3), which begins inside the first
C30_OverlappingDiscarded ==
    /\ Len(arbOut) >= 1
    /\ arbIn.config.enable_max_matching
    /\ Len(ArbRun.all_hits) = 3
    /\ Len(ArbRun.merged) = 2
    /\ ArbRun.merged[1].start = 0 /\ ArbRun.merged[1].end = 2
    /\ ArbRun.merged[2].start = 3 /\ ArbRun.merged[2].end = 4
    /\ \E i \in 1..3 : ArbRun.all_hits[i].start = 1 /\ ArbRun.all_hits[i].end = 3

(***************************************************************************)
(* Properties of a rule object, checked under SpecRule.                    *)
(***************************************************************************)
\* C15: detect on a rule of any variant that was constructed and never
\* loaded returns the empty list and raises nothing, for every text and
\* every detection configuration.
C15_DetectBeforeLoad ==
    (engineOut.called /\ ~engine.ever_loaded) =>
        /\ ~engineOut.got.raised
        /\ engineOut.got.results = <<>>

\* a regex rule never loaded was asked about "ab" and returned the empty list
C15_UnloadedRegexAsked ==
    /\ engineOut.called
    /\ ~engine.ever_loaded
    /\ engine.rule.rule_type = "regex"
    /\ engineOut.text = <<"a", "b">>
    /\ engineOut.config.categories = <<"c1">>
    /\ engineOut.got = Returned(<<>>)

\* C16: a rule loaded from the registry never reports a line of the word
\* file that is blank or starts with '#': such lines are no detection
\* patterns.
C16_LineFiltering ==
    (engineOut.called /\ ~engineOut.got.raised) =>
        \A i \in 1..Len(engineOut.got.results) :
            /\ ~IsBlank(engineOut.got.results[i].matched_word)
            /\ engineOut.got.results[i].matched_word[1] # "#"

\* C21: the results of detect after load(W1) followed by load(W2) are the
\* results of detect on a fresh rule after load(W2) alone, for every rule
\* variant: what detect returned is what the rule with the structures of
\* its last load, and a segmenter that was given the words of that load
\* only, returns for the same text and config.
C21_LoadReplaces ==
    (engineOut.called /\ engine.ever_loaded) =>
        \E word_list \in EngineWordLists(engine.rule, engineOut.text,
                                         jieba_added(engine.rule.loaded)) :
            engineOut.got = rule_detect(engine.rule, engineOut.text,
                                        engineOut.config, word_list, {})

\* C22: every span the exact rule emits satisfies
\* 0 <= start < end <= length of the matching-normalized text, and that text
\* at [start, end) is the normalized form of the matched word, also for
\* loaded words that hold noise characters or capital letters.
C22_ExactSpanPositions ==
    ( /\ engineOut.called
      /\ engine.rule.rule_type = "exact"
      /\ ~engineOut.got.raised ) =>
        LET processed == exact_preprocess_text(engineOut.text, engine.rule.config)
            results   == engineOut.got.results
        IN  \A i \in 1..Len(results) :
                \A p \in 1..Len(results[i].positions) :
                    LET start == results[i].positions[p][1]
                        end   == results[i].positions[p][2]
                    IN  /\ 0 <= start /\ start < end /\ end <= Len(processed)
                        /\ SubSeq(processed, start + 1, end) =
                             exact_preprocess_text(Strip(results[i].matched_word),
                                                   engine.rule.config)

\* C23: for every token of the segmentation whose form is in the word set
\* of a loaded, requested category, the segmenter rule emits a span with
\* confidence 0.9, also when the token cannot be found in the text at or
\* after the running cursor: the results are, token by token and category
\* by category, the listed tokens.
C23_TokensFlagged ==
    ( /\ engineOut.called
      /\ engine.rule.rule_type = "jieba"
      /\ ~engineOut.got.raised
      /\ ~IsBlank(engineOut.text) ) =>
        LET cats   == categories_to_check(engine.rule.loaded, engineOut.config)
            tokens == engineOut.word_list
            listed == Concat([t \in 1..Len(tokens) |->
                          SelectSeq([c \in 1..Len(cats) |->
                                        [word |-> tokens[t], category |-> cats[c]]],
                              LAMBDA m :
                                  /\ ~IsBlank(m.word)
                                  /\ IsLoaded(engine.rule.loaded, m.category)
                                  /\ <<m.word, m.word>> \in
                                        LoadedFor(engine.rule.loaded, m.category).entries)])
            results == engineOut.got.results
        IN  /\ Len(results) = Len(listed)
            /\ \A i \in 1..Len(listed) :
                  /\ results[i].matched_word = listed[i].word
                  /\ results[i].category = listed[i].category
                  /\ results[i].confidence = Tenth(9)

StatedNoise(c) == IsSpace(c) \/ c \in NoiseChars \/ c = "'"

\* C27: for every text and every max_length >= 1, split_text returns, and
\* every chunk it returns is non-empty and no longer than max_length.
C27_ChunkBounds ==
    \A k \in 1..Len(prep.split) :
        \A c \in 1..Len(prep.split[k].chunks) :
            /\ Len(prep.split[k].chunks[c]) >= 1
            /\ Len(prep.split[k].chunks[c]) <= prep.split[k].max_length

\* C19: for every text t, clean_for_matching(t) is t with every character
\* of the noise class removed and every other character kept in its
\* original order.
C19_NoiseStripping ==
    prep.cleaned # <<>> =>
        prep.cleaned[1] = SelectSeq(prep.text, LAMBDA c : ~StatedNoise(c))

====
